---- MODULE Spec2Model ----
(***************************************************************************)
(* Model of the adx-rs auction pipeline: the HTTP front                    *)
(* (api/handlers.rs), the auction engine (bidding/engine.rs), the DSP      *)
(* fan-out client (bidding/dsp_client.rs) and the catalog                  *)
(* (config/config_manager.rs, model/dsp.rs).                               *)
(*                                                                         *)
(* Strings are TLA+ strings; Option<T> is a sequence of length 0 or 1.     *)
(* Prices are f64 in the source; here they are integers in thousandths of  *)
(* a currency unit, and the bid prices used are ones for which the f64     *)
(* product with 0.8 is the exact decimal (2.0, 2.5, 5.0).                  *)
(***************************************************************************)
EXTENDS Integers, Sequences, FiniteSets, TLC

VARIABLES
    demands,         \* DemandManager.demands: dsp id -> Demand
    ssp_placements,  \* ConfigManager.ssp_placements
    dsp_placements,  \* ConfigManager.dsp_placements
    pc,              \* position of the request handler
    ssp_uuid,        \* query parameter of the request
    bid_request,     \* the BidRequest of the auction
    tasks,           \* the DSP tasks spawned by fetch_bids, in demand order
    log_manager,     \* entries sent to LogManager, in order
    runtime_logger,  \* entries sent to RuntimeLogger, in order
    engine_result,   \* what process_bid_request returned and its locals
    http_response,   \* what the handler answered
    gather,          \* the future of fetch_bids: none, joining, returned, dropped
    fetch_results,   \* what fetch_bids returned
    completion_order,\* the task indexes in the order the tasks finished
    update_pc,       \* position of the updater in update_placements
    update_args,     \* the arguments of the running update_placements
    reader_pc,       \* position of the reader of both placement sets
    read_ssp,        \* what the reader got from get_ssp_placements
    read_dsp,        \* what the reader got from get_dsp_placements
    adm_in,          \* the adm of a winning bid, as the DSP sent it
    adm_price,       \* the final price of that bid
    adm_replaced,    \* dsp_adm_replaced: that adm after the macro substitution
    adm_out,         \* the adm returned for it
    channel,         \* the mpsc channel of a logger: the entries sent, not yet received
    send_waiters,    \* the log calls waiting in send for room in the channel, in order
    caller_pc,       \* position of each caller of log
    buffers,         \* the buffers of the background writer, one per file
    log_files,       \* what has been written to each log file
    worker,          \* position of the background writer and the flush it is doing
    log_seq,         \* number of log calls made so far
    shutdown_marks   \* the number of entries accepted at the call of shutdown, then at its return

fetch_vars == <<gather, fetch_results, completion_order>>

config_vars == <<update_pc, update_args, reader_pc, read_ssp, read_dsp>>

adm_vars == <<adm_in, adm_price, adm_replaced, adm_out>>

logger_vars == <<channel, send_waiters, caller_pc, buffers, log_files, worker, log_seq,
                 shutdown_marks>>

vars == <<demands, ssp_placements, dsp_placements, pc, ssp_uuid, bid_request,
          tasks, log_manager, runtime_logger, engine_result, http_response,
          gather, fetch_results, completion_order,
          update_pc, update_args, reader_pc, read_ssp, read_dsp,
          adm_in, adm_price, adm_replaced, adm_out,
          channel, send_waiters, caller_pc, buffers, log_files, worker, log_seq,
          shutdown_marks>>

(***************************************************************************)
(* Bounds                                                                  *)
(***************************************************************************)
MaxDsp == 2      \* demands in the catalog
MaxBids == 2     \* bids in one DSP response
MaxUpdates == 3  \* calls of update_placements

(***************************************************************************)
(* Option<T>                                                               *)
(***************************************************************************)
None == <<>>
Some(x) == <<x>>
IsSome(o) == Len(o) = 1
Unwrap(o) == o[1]
UnwrapOr(o, d) == IF Len(o) = 1 THEN o[1] ELSE d

(***************************************************************************)
(* str::contains, str::find, str::rfind, str::replace                      *)
(***************************************************************************)
StrContains(s, w) ==
    \E i \in 1..(Len(s) - Len(w) + 1) : SubSeq(s, i, i + Len(w) - 1) = w

\* 1-based position of the first occurrence of w in s, 0 when there is none
StrFind(s, w) ==
    LET hits == {i \in 1..(Len(s) - Len(w) + 1) : SubSeq(s, i, i + Len(w) - 1) = w}
    IN IF hits = {} THEN 0 ELSE CHOOSE i \in hits : \A j \in hits : i <= j

\* 1-based position of the last occurrence of w in s, 0 when there is none
StrRFind(s, w) ==
    LET hits == {i \in 1..(Len(s) - Len(w) + 1) : SubSeq(s, i, i + Len(w) - 1) = w}
    IN IF hits = {} THEN 0 ELSE CHOOSE i \in hits : \A j \in hits : i >= j

RECURSIVE StrReplace(_, _, _)
StrReplace(s, from, to) ==
    LET p == StrFind(s, from)
    IN IF p = 0 THEN s
       ELSE SubSeq(s, 1, p - 1) \o to
            \o StrReplace(SubSeq(s, p + Len(from), Len(s)), from, to)

(***************************************************************************)
(* Vec::sort_by with the comparator b.price.partial_cmp(&a.price): a       *)
(* stable sort, descending by price.  Elements are records with a price    *)
(* field.                                                                  *)
(***************************************************************************)
RECURSIVE InsertDesc(_, _)
InsertDesc(sorted, x) ==
    IF sorted = <<>> THEN <<x>>
    ELSE IF sorted[Len(sorted)].price >= x.price THEN Append(sorted, x)
    ELSE Append(InsertDesc(SubSeq(sorted, 1, Len(sorted) - 1), x), sorted[Len(sorted)])

RECURSIVE SortDescFrom(_, _)
SortDescFrom(acc, s) ==
    IF s = <<>> THEN acc ELSE SortDescFrom(InsertDesc(acc, Head(s)), Tail(s))

sort_by_price_desc(s) == SortDescFrom(<<>>, s)

(***************************************************************************)
(* Sequence helpers                                                        *)
(***************************************************************************)
RECURSIVE Flatten(_)
Flatten(ss) == IF ss = <<>> THEN <<>> ELSE Head(ss) \o Flatten(Tail(ss))

Range(s) == {s[i] : i \in 1..Len(s)}

MaxOf(S) == CHOOSE x \in S : \A y \in S : x >= y

\* the sequences without repetition that enumerate the set S
Perms(S) == {p \in [1..Cardinality(S) -> S] : \A i, j \in 1..Cardinality(S) : p[i] = p[j] => i = j}

(***************************************************************************)
(* The inputs: bids a DSP may send                                         *)
(***************************************************************************)
HtmlAdm == "<html><body>{AUCTION_PRICE}</body></html>"
VastAdm == "<VAST><Ad><InLine>{AUCTION_PRICE}</InLine></Ad></VAST>"

BidPool == <<
    [id |-> "bid-1", impid |-> "i1", price |-> 2500,
     nurl |-> Some("http://example.com/nurl"),
     adm |-> Some(HtmlAdm), crid |-> Some("Banned-1")],
    [id |-> "bid-2", impid |-> "i1", price |-> 5000,
     nurl |-> None, adm |-> Some("a restricted offer"), crid |-> None],
    [id |-> "bid-3", impid |-> "i1", price |-> 2000,
     nurl |-> None, adm |-> Some("offer {AUCTION_PRICE}"), crid |-> Some("banned-7")],
    [id |-> "bid-4", impid |-> "i9", price |-> 2500,
     nurl |-> None, adm |-> Some("Ad for"), crid |-> Some("bidden-7")],
    [id |-> "bid-5", impid |-> "i2", price |-> 2500,
     nurl |-> None, adm |-> None, crid |-> None],
    [id |-> "bid-6", impid |-> "i1", price |-> 5000,
     nurl |-> None, adm |-> Some(VastAdm), crid |-> Some("crid-6")]
>>

\* the bid lists a DSP may send: DSP d bids from the pool starting at its
\* own offset, and sends the first k of its bids, k from 0 to MaxBids
BidLists(d) ==
    LET n == Len(BidPool)
        start == (2 * (d - 1)) % n
        own == [i \in 1..MaxBids |-> BidPool[((start + i - 1) % n) + 1]]
    IN {SubSeq(own, 1, k) : k \in 0..MaxBids}

SeatBidOf(bids) == [bid |-> bids, seat |-> Some("mock_seat"), group |-> Some(0)]

\* the seatbid lists a DSP may send: none, all bids in one seat, or the
\* first bid in one seat and the rest in a second
SeatBidLists(d) ==
    {<<>>}
    \cup {<<SeatBidOf(bl)>> : bl \in BidLists(d)}
    \cup {<<SeatBidOf(<<Head(bl)>>), SeatBidOf(Tail(bl))>> :
            bl \in {b \in BidLists(d) : Len(b) >= 2}}

\* the bodies that parse as a BidResponse; any DSP may also send the one bid
\* of the pool that has no adm
DspBodies(d, req_id) ==
    {[id |-> req_id, seatbid |-> sb, bidid |-> None, cur |-> Some("USD"),
      customdata |-> None, nbr |-> None] :
        sb \in SeatBidLists(d) \cup {<<SeatBidOf(<<BidPool[5]>>)>>}}
    \cup {[id |-> req_id, seatbid |-> sb, bidid |-> None, cur |-> Some("USD"),
           customdata |-> None, nbr |-> Some(2)] :
            sb \in {<<>>, <<SeatBidOf(<<BidPool[1]>>)>>}}

\* dsp_client.rs: the BidResponse of every outcome that is not a success
EmptyBidResponse ==
    [id |-> "", seatbid |-> <<>>, bidid |-> None, cur |-> None,
     customdata |-> None, nbr |-> None]

\* all bids of a response, seatbids and bids in response order
BidsOf(bid_response) ==
    Flatten([i \in 1..Len(bid_response.seatbid) |-> bid_response.seatbid[i].bid])

HttpStatuses == {200, 500}

\* what one DSP call can come to: the deadline passing before the response
\* headers, a transport error, or a response with some HTTP status whose
\* body parses as a BidResponse or does not
DspOutcomes(d, req_id) ==
    {[kind |-> k, http_status |-> 0, parses |-> FALSE, body |-> EmptyBidResponse] :
        k \in {"timeout", "transport_error"}}
    \cup {[kind |-> "response", http_status |-> st, parses |-> FALSE,
           body |-> EmptyBidResponse] : st \in HttpStatuses}
    \cup {[kind |-> "response", http_status |-> 200, parses |-> TRUE, body |-> b] :
            b \in DspBodies(d, req_id)}
    \cup {[kind |-> "response", http_status |-> 500, parses |-> TRUE, body |-> b] :
            b \in {x \in DspBodies(d, req_id) : Len(BidsOf(x)) = 1}}

(***************************************************************************)
(* f64::to_string for a price in thousandths: the shortest decimal, with   *)
(* no fractional part when the value is whole ("2", "1.6", "1.25")         *)
(***************************************************************************)
PriceToString(m) ==
    LET whole == m \div 1000
        d1 == (m % 1000) \div 100
        d2 == (m % 100) \div 10
        d3 == m % 10
        frac == IF d3 # 0 THEN "." \o ToString(d1) \o ToString(d2) \o ToString(d3)
                ELSE IF d2 # 0 THEN "." \o ToString(d1) \o ToString(d2)
                ELSE IF d1 # 0 THEN "." \o ToString(d1)
                ELSE ""
    IN ToString(whole) \o frac

(***************************************************************************)
(* serde_json::from_str / Value::to_string for the adm of a native ad.     *)
(* A text parses when, after surrounding whitespace, it is an object       *)
(* {"k":v,...} whose members are separated by commas at nesting depth 0;   *)
(* member values are kept as their text.                                   *)
(***************************************************************************)
IsWhitespace(c) == c \in {" ", "\t", "\n", "\r"}

RECURSIVE TrimStart(_)
TrimStart(s) ==
    IF Len(s) > 0 /\ IsWhitespace(SubSeq(s, 1, 1)) THEN TrimStart(SubSeq(s, 2, Len(s))) ELSE s

RECURSIVE TrimEnd(_)
TrimEnd(s) ==
    IF Len(s) > 0 /\ IsWhitespace(SubSeq(s, Len(s), Len(s)))
    THEN TrimEnd(SubSeq(s, 1, Len(s) - 1)) ELSE s

StartsWith(s, w) == Len(s) >= Len(w) /\ SubSeq(s, 1, Len(w)) = w

\* 1-based position of the first character of s that is in the set cs, 0
\* when there is none
FirstOf(s, cs) ==
    LET hits == {i \in 1..Len(s) : SubSeq(s, i, i) \in cs}
    IN IF hits = {} THEN 0 ELSE CHOOSE i \in hits : \A j \in hits : i <= j

\* the characters that end a run of plain text inside and outside a string
JsonStringStops == {"\"", "\\"}
JsonTextStops == {"\"", "{", "[", "}", "]", ",", " ", "\t", "\n", "\r"}

\* one step of the split below, where c is the first character of s, rest
\* what follows it and p the position of the first character that ends a
\* run of plain text: the run is taken in one step, else the character
\* that ends it is handled; gives the text left and the new state
JsonStepAt(s, st, p, c, rest) ==
    IF p = 0 THEN [rest |-> "", st |-> [st EXCEPT !.cur = @ \o s]]
    ELSE IF p > 1
    THEN [rest |-> SubSeq(s, p, Len(s)), st |-> [st EXCEPT !.cur = @ \o SubSeq(s, 1, p - 1)]]
    ELSE IF st.instr
    THEN IF c = "\\" /\ Len(rest) > 0
         THEN [rest |-> SubSeq(rest, 2, Len(rest)),
               st |-> [st EXCEPT !.cur = @ \o c \o SubSeq(rest, 1, 1)]]
         ELSE [rest |-> rest, st |-> [st EXCEPT !.cur = @ \o c, !.instr = (c # "\"")]]
    ELSE IF c = "\"" THEN [rest |-> rest, st |-> [st EXCEPT !.cur = @ \o c, !.instr = TRUE]]
    ELSE IF c \in {"{", "["}
         THEN [rest |-> rest, st |-> [st EXCEPT !.cur = @ \o c, !.depth = @ + 1]]
    ELSE IF c \in {"}", "]"}
         THEN [rest |-> rest, st |-> [st EXCEPT !.cur = @ \o c, !.depth = @ - 1,
                                               !.ok = @ /\ st.depth > 0]]
    ELSE IF c = "," /\ st.depth = 0
         THEN [rest |-> rest, st |-> [st EXCEPT !.cur = "", !.out = Append(@, st.cur)]]
    ELSE IF c \in {" ", "\t", "\n", "\r"} THEN [rest |-> rest, st |-> st]
    ELSE [rest |-> rest, st |-> [st EXCEPT !.cur = @ \o c]]

JsonStep(s, st) ==
    JsonStepAt(s, st, FirstOf(s, IF st.instr THEN JsonStringStops ELSE JsonTextStops),
               SubSeq(s, 1, 1), SubSeq(s, 2, Len(s)))

\* splits the text between the braces into member texts; st is
\* [depth, instr, cur, out, ok]
RECURSIVE JsonSplit(_, _)
JsonSplit(s, st) ==
    IF s = "" THEN st
    ELSE JsonSplit(JsonStep(s, st).rest, JsonStep(s, st).st)

\* the escapes of a JSON string that stand for a character Value::to_string
\* writes as itself: from_str decodes them and to_string does not put them
\* back.  Each is [the text after the backslash, the character].
JsonDecodedEscapes ==
    {<<"u007b", "{">>, <<"u007B", "{">>, <<"u007d", "}">>, <<"u007D", "}">>, <<"/", "/">>}

\* a JSON text after from_str and to_string: the escapes above are decoded,
\* every other escape (\\, \", \n, ...) is written back as it was read
RECURSIVE JsonUnescape(_)
JsonUnescape(s) ==
    LET p == StrFind(s, "\\")
        rest == SubSeq(s, p + 1, Len(s))
        hits == {e \in JsonDecodedEscapes : StartsWith(rest, e[1])}
        e == CHOOSE x \in hits : TRUE
        written == IF hits # {} THEN e[2] ELSE SubSeq(s, p, p + 1)
        read == IF hits # {} THEN Len(e[1]) + 1 ELSE 2
    IN IF p = 0 THEN s
       ELSE SubSeq(s, 1, p - 1) \o written \o JsonUnescape(SubSeq(s, p + read, Len(s)))

\* a member text "key":value as [key, value], or [ok |-> FALSE]
JsonMember(m) ==
    LET q == IF StartsWith(m, "\"") THEN StrFind(SubSeq(m, 2, Len(m)), "\"") ELSE 0
    IN IF q = 0 \/ Len(m) < q + 3 \/ SubSeq(m, q + 2, q + 2) # ":"
       THEN [ok |-> FALSE, key |-> "", value |-> ""]
       ELSE [ok |-> TRUE, key |-> JsonUnescape(SubSeq(m, 2, q)),
             value |-> JsonUnescape(SubSeq(m, q + 3, Len(m)))]

\* the result of the parse of the trimmed text t, given the state st the
\* split of its inside ended in and the members ms read from it
JsonParsed(t, st, ms) ==
    IF Len(t) < 2 \/ ~StartsWith(t, "{") \/ SubSeq(t, Len(t), Len(t)) # "}"
       \/ ~st.ok \/ st.depth # 0 \/ st.instr
       \/ \E i \in 1..Len(ms) : ~ms[i].ok
    THEN [ok |-> FALSE, members |-> <<>>]
    ELSE [ok |-> TRUE, members |-> ms]

\* the members read from the member texts
JsonMembers(texts) == [i \in 1..Len(texts) |-> JsonMember(texts[i])]

\* the member texts the split ended with
JsonTexts(st) == IF st.cur = "" /\ st.out = <<>> THEN <<>> ELSE Append(st.out, st.cur)

JsonParseSplit(t, st) == JsonParsed(t, st, JsonMembers(JsonTexts(st)))

JsonParseTrimmed(t) ==
    JsonParseSplit(t, JsonSplit(SubSeq(t, 2, Len(t) - 1),
                                [depth |-> 0, instr |-> FALSE, cur |-> "", out |-> <<>>,
                                 ok |-> TRUE]))

\* [ok, members]: the members of the top-level object, in text order
JsonParseObject(adm) == JsonParseTrimmed(TrimEnd(TrimStart(adm)))

\* byte order of the characters that occur in keys
Alphabet == "\"-0123456789ABCDEFGHIJKLMNOPQRSTUVWXYZ_abcdefghijklmnopqrstuvwxyz"

RECURSIVE StrLess(_, _)
StrLess(a, b) ==
    IF b = "" THEN FALSE
    ELSE IF a = "" THEN TRUE
    ELSE LET ra == StrFind(Alphabet, SubSeq(a, 1, 1))
             rb == StrFind(Alphabet, SubSeq(b, 1, 1))
         IN IF ra # rb THEN ra < rb
            ELSE StrLess(SubSeq(a, 2, Len(a)), SubSeq(b, 2, Len(b)))

\* Map::insert of serde_json's default (BTreeMap) map: replaces the value
\* of an existing key, else inserts in key order
RECURSIVE JsonInsert(_, _, _)
JsonInsert(members, key, value) ==
    IF members = <<>> THEN <<[ok |-> TRUE, key |-> key, value |-> value]>>
    ELSE IF Head(members).key = key
         THEN <<[ok |-> TRUE, key |-> key, value |-> value]>> \o Tail(members)
    ELSE IF StrLess(key, Head(members).key)
         THEN <<[ok |-> TRUE, key |-> key, value |-> value]>> \o members
    ELSE <<Head(members)>> \o JsonInsert(Tail(members), key, value)

RECURSIVE JsonSortMembers(_, _)
JsonSortMembers(acc, members) ==
    IF members = <<>> THEN acc
    ELSE JsonSortMembers(JsonInsert(acc, Head(members).key, Head(members).value), Tail(members))

RECURSIVE JsonJoin(_)
JsonJoin(members) ==
    IF members = <<>> THEN ""
    ELSE "\"" \o Head(members).key \o "\":" \o Head(members).value
         \o (IF Len(members) > 1 THEN "," ELSE "") \o JsonJoin(Tail(members))

JsonToString(members) == "{" \o JsonJoin(members) \o "}"

(***************************************************************************)
(* engine.rs: inject_ssp_tracking                                          *)
(***************************************************************************)
HtmlSspTag == "<img src=\"http://tk.rust-adx.com/impression?price={AUCTION_PRICE}\" style=\"display:none;\" />"
VastSspTag == "<Impression><![CDATA[http://tk.rust-adx.com/impression?price={AUCTION_PRICE}]]></Impression>"
SspImpressionUrl == "http://tk.rust-adx.com/impression?price={AUCTION_PRICE}"
SspClickUrl == "http://tk.rust-adx.com/click?price={AUCTION_PRICE}"

\* the injection when the pixel goes before the first </body>
inject_ssp_tracking_first_body(adm) ==
    IF StrContains(adm, "<html")
    THEN LET pos == StrFind(adm, "</body>")
         IN IF pos # 0
            THEN SubSeq(adm, 1, pos - 1) \o HtmlSspTag \o SubSeq(adm, pos, Len(adm))
            ELSE adm \o HtmlSspTag
    ELSE adm

\* the injection when the fragment goes after the last <InLine>
inject_ssp_tracking_last_inline(adm) ==
    IF StrContains(adm, "<html") THEN adm
    ELSE IF StrContains(adm, "<VAST")
    THEN LET pos == StrRFind(adm, "<InLine>")
         IN IF pos # 0
            THEN LET cut == pos + Len("<InLine>") - 1
                 IN SubSeq(adm, 1, cut) \o VastSspTag \o SubSeq(adm, cut + 1, Len(adm))
            ELSE adm
    ELSE adm

\* the injection when a native ad gets the impression URL only
inject_ssp_tracking_no_click(adm) ==
    IF StrContains(adm, "<html") \/ StrContains(adm, "<VAST") THEN adm
    ELSE IF StartsWith(TrimStart(adm), "{")
    THEN LET v == JsonParseObject(adm)
         IN IF v.ok
            THEN JsonToString(
                   JsonInsert(JsonSortMembers(<<>>, v.members),
                              "ssp_impression_tracking", "\"" \o SspImpressionUrl \o "\""))
            ELSE adm
    ELSE adm

\* engine.rs 14-58
inject_ssp_tracking(adm) ==
    IF StrContains(adm, "<html")
    THEN LET pos == StrRFind(adm, "</body>")
         IN IF pos # 0
            THEN SubSeq(adm, 1, pos - 1) \o HtmlSspTag \o SubSeq(adm, pos, Len(adm))
            ELSE adm \o HtmlSspTag
    ELSE IF StrContains(adm, "<VAST")
    THEN LET pos == StrFind(adm, "<InLine>")
         IN IF pos # 0
            THEN LET cut == pos + Len("<InLine>") - 1
                 IN SubSeq(adm, 1, cut) \o VastSspTag \o SubSeq(adm, cut + 1, Len(adm))
            ELSE adm
    ELSE IF StartsWith(TrimStart(adm), "{")
    THEN LET v == JsonParseObject(adm)
         IN IF v.ok
            THEN JsonToString(
                   JsonInsert(
                     JsonInsert(JsonSortMembers(<<>>, v.members),
                                "ssp_impression_tracking", "\"" \o SspImpressionUrl \o "\""),
                     "ssp_click_tracking", "\"" \o SspClickUrl \o "\""))
            ELSE adm
    ELSE adm

(***************************************************************************)
(* engine.rs: contains_sensitive_content                                   *)
(***************************************************************************)
sensitive_keywords == {"forbidden", "banned", "restricted"}

\* the filter when adm and crid are joined with nothing between them
contains_sensitive_content_no_separator(bid) ==
    LET content == UnwrapOr(bid.adm, "") \o UnwrapOr(bid.crid, "")
    IN \E word \in sensitive_keywords : StrContains(content, word)

contains_sensitive_content(bid) ==
    LET content == UnwrapOr(bid.adm, "") \o " " \o UnwrapOr(bid.crid, "")
    IN \E word \in sensitive_keywords : StrContains(content, word)

(***************************************************************************)
(* dsp_client.rs: the outcome tuple of one DSP task                        *)
(***************************************************************************)
\* the highest price of the first seatbid only
top_price_first_seat(bid_response) ==
    LET prices == IF bid_response.seatbid = <<>> THEN {}
                  ELSE {b.price : b \in Range(bid_response.seatbid[1].bid)}
    IN IF prices = {} THEN 0 ELSE MaxOf(prices)

\* dsp_client.rs 60-63: the highest price over the bids of all seatbids, 0.0
\* when there is none
top_price(bid_response) ==
    LET prices == {b.price : b \in Range(BidsOf(bid_response))}
    IN IF prices = {} THEN 0 ELSE MaxOf(prices)

\* the tuple a task returns; an outcome of kind "response" is a response
\* whose headers arrived in time, with any HTTP status
task_result(task, outcome, elapsed) ==
    IF outcome.kind = "timeout"
    THEN [dsp_id |-> task.dsp_id, url |-> task.url, price |-> 0,
          bid_response |-> EmptyBidResponse, status |-> "timeout", elapsed |-> elapsed]
    ELSE IF outcome.kind = "transport_error"
    THEN [dsp_id |-> task.dsp_id, url |-> task.url, price |-> 0,
          bid_response |-> EmptyBidResponse, status |-> "invalid_response", elapsed |-> elapsed]
    ELSE IF ~outcome.parses
    THEN [dsp_id |-> task.dsp_id, url |-> task.url, price |-> 0,
          bid_response |-> EmptyBidResponse, status |-> "json_parse_error", elapsed |-> elapsed]
    ELSE [dsp_id |-> task.dsp_id, url |-> task.url, price |-> top_price(outcome.body),
          bid_response |-> outcome.body, status |-> "success", elapsed |-> elapsed]

DefaultTimeoutMs == 250

\* the deadline when the tmax of the request is preferred to the timeout of
\* the demand
timeout_duration_tmax_first(demand, request) ==
    UnwrapOr(request.tmax, UnwrapOr(demand.timeout, DefaultTimeoutMs))

\* the deadline when the tmax of the request caps the timeout of the demand
timeout_duration_capped_by_tmax(demand, request) ==
    LET own == UnwrapOr(demand.timeout, UnwrapOr(request.tmax, DefaultTimeoutMs))
        tmax == UnwrapOr(request.tmax, own)
    IN IF tmax < own THEN tmax ELSE own

\* dsp_client.rs 46
timeout_duration(demand, request) ==
    UnwrapOr(demand.timeout, UnwrapOr(request.tmax, DefaultTimeoutMs))

(***************************************************************************)
(* engine.rs: process_bid_request, after the gather                        *)
(***************************************************************************)
dsp_detail(r) ==
    [dsp_id |-> r.dsp_id, url |-> r.url, bid_price |-> r.price, result |-> r.status,
     inquiry_time_ms |-> r.elapsed,
     failure_reason |-> IF r.status = "success" THEN None ELSE Some(r.status)]

\* the failed-DSP entry when a response with nbr and seat bids counts as valid
failed_dsp_log_ignores_nbr(r) ==
    IF r.bid_response.seatbid = <<>>
    THEN Some([dsp_id |-> r.dsp_id, url |-> r.url, reason |-> "no_seatbid",
               result |-> r.status, inquiry_time_ms |-> r.elapsed])
    ELSE None

\* engine.rs 91-110: the failed-DSP entry of an outcome, if it gets one
failed_dsp_log(r) ==
    IF IsSome(r.bid_response.nbr)
    THEN Some([dsp_id |-> r.dsp_id, url |-> r.url, nbr |-> Unwrap(r.bid_response.nbr),
               result |-> r.status, inquiry_time_ms |-> r.elapsed])
    ELSE IF r.bid_response.seatbid = <<>>
    THEN Some([dsp_id |-> r.dsp_id, url |-> r.url, reason |-> "no_seatbid",
               result |-> r.status, inquiry_time_ms |-> r.elapsed])
    ELSE None

failed_dsp_logs(results) ==
    Flatten([i \in 1..Len(results) |-> failed_dsp_log(results[i])])

valid_responses(results) ==
    Flatten([i \in 1..Len(results) |->
               IF IsSome(failed_dsp_log(results[i])) THEN <<>>
               ELSE <<[bid_response |-> results[i].bid_response, price |-> results[i].price]>>])

\* the bids of the valid responses, the responses sorted by price
candidate_bids(results) ==
    LET sorted == sort_by_price_desc(valid_responses(results))
    IN Flatten([i \in 1..Len(sorted) |-> BidsOf(sorted[i].bid_response)])

passes_filter(bid) == ~contains_sensitive_content(bid)

checked_bids(results) == SelectSeq(candidate_bids(results), passes_filter)

rejected_bids(results) == SelectSeq(candidate_bids(results), contains_sensitive_content)

bid_rejected_log(request, bid) ==
    [level |-> "WARN",
     entry |-> [request_id |-> request.id, adx_log |-> "bid_rejected",
                bid_id |-> bid.id, reason |-> "contains_sensitive_content"]]

adx_inquiry_failed_log(request, reason) ==
    [level |-> "ERROR",
     entry |-> [request_id |-> request.id, adx_log |-> "adx_inquiry_failed",
                reason |-> reason]]

dsp_inquiry_failed_log(request, details) ==
    [level |-> "ERROR",
     entry |-> [request_id |-> request.id, adx_log |-> "dsp_inquiry_failed",
                details |-> details]]

ProfitKeepTenths == 8

final_price_of(original_price) == (original_price * ProfitKeepTenths) \div 10

\* engine.rs 173: the adm of the DSP with its macro replaced by the price
dsp_adm_replaced(adm, final_price) ==
    StrReplace(adm, "{AUCTION_PRICE}", PriceToString(final_price))

\* the rewrite when a missing adm is treated as an empty one
rewrite_adm_none_as_empty(adm, final_price) ==
    Some(inject_ssp_tracking(dsp_adm_replaced(UnwrapOr(adm, ""), final_price)))

\* engine.rs 172-177
rewrite_adm(adm, final_price) ==
    IF IsSome(adm)
    THEN Some(inject_ssp_tracking(dsp_adm_replaced(Unwrap(adm), final_price)))
    ELSE None

\* the last of the surviving bids that have the highest price
select_winner_last_max(checked) ==
    LET top == MaxOf({checked[i].price : i \in 1..Len(checked)})
    IN checked[MaxOf({i \in 1..Len(checked) : checked[i].price = top})]

\* engine.rs 165-166: the first of the surviving bids sorted by price
select_winner(checked) == Head(sort_by_price_desc(checked))

\* the reason when an auction with no surviving bid is always put down to the DSPs
inquiry_failure_reason_always_dsp(valid, checked) == "all_dsp_failed"

\* the reason when an auction with no valid response is put down to the filter
inquiry_failure_reason_always_filter(valid, checked) == "all_bids_filtered"

\* engine.rs 126-163: the reason logged when the auction has no winner
inquiry_failure_reason(valid, checked) ==
    IF valid = <<>> THEN "all_dsp_failed" ELSE "all_bids_filtered"

\* the response without its currency
winner_response_no_cur(request, winning_bid) ==
    [id |-> request.id,
     seatbid |-> <<[bid |-> <<winning_bid>>, seat |-> Some(""), group |-> Some(0)]>>,
     bidid |-> None, cur |-> None, customdata |-> None, nbr |-> None]

\* engine.rs 196-209: the response that wraps the winner
winner_response(request, winning_bid) ==
    [id |-> request.id,
     seatbid |-> <<[bid |-> <<winning_bid>>, seat |-> Some(""), group |-> Some(0)]>>,
     bidid |-> None, cur |-> Some("USD"), customdata |-> None, nbr |-> None]

\* the entries when the failure of the auction is logged before the rejections
engine_logs_failure_first(request, failed, valid, rejected, checked) ==
    (IF failed # <<>> THEN <<dsp_inquiry_failed_log(request, failed)>> ELSE <<>>)
    \o (IF valid # <<>> /\ checked # <<>> THEN <<>>
        ELSE <<adx_inquiry_failed_log(request, inquiry_failure_reason(valid, checked))>>)
    \o (IF valid = <<>> THEN <<>>
        ELSE [i \in 1..Len(rejected) |-> bid_rejected_log(request, rejected[i])])

\* engine.rs 114-163: the entries sent to the LogManager, in order: the
\* failed DSPs (114-121), then either the failure of the auction for want
\* of a valid response (126-133), or the rejected bids (138-152) and the
\* failure for want of a surviving bid (155-163)
engine_logs(request, failed, valid, rejected, checked) ==
    (IF failed # <<>> THEN <<dsp_inquiry_failed_log(request, failed)>> ELSE <<>>)
    \o (IF valid = <<>> THEN <<>>
        ELSE [i \in 1..Len(rejected) |-> bid_rejected_log(request, rejected[i])])
    \o (IF valid # <<>> /\ checked # <<>> THEN <<>>
        ELSE <<adx_inquiry_failed_log(request, inquiry_failure_reason(valid, checked))>>)

\* the locals of process_bid_request at its return, given the gathered results
process_bid_request(request, results) ==
    LET failed == failed_dsp_logs(results)
        valid == valid_responses(results)
        checked == checked_bids(results)
        rejected == rejected_bids(results)
        details == [i \in 1..Len(results) |-> dsp_detail(results[i])]
        first == select_winner(checked)
        original_price == first.price
        final_price == final_price_of(original_price)
        winning_bid == [first EXCEPT !.adm = rewrite_adm(first.adm, final_price)]
        success == valid # <<>> /\ checked # <<>>
        logs == engine_logs(request, failed, valid, rejected, checked)
        dsp_details == IF success
                       THEN Append(details, [original_price |-> original_price,
                                             final_price |-> final_price])
                       ELSE details
        winning_bid_opt == IF success THEN Some(winning_bid) ELSE None
        aggregated_log == [request_id |-> request.id,
                           adx_inquiry_result |-> IF success THEN "success" ELSE "failed",
                           winning_bid |-> winning_bid_opt,
                           dsp_call_details |-> dsp_details]
    IN [returned |-> IF success THEN Some(winner_response(request, winning_bid)) ELSE None,
        results |-> results,
        checked_bids |-> checked,
        original_price |-> IF success THEN Some(original_price) ELSE None,
        final_price |-> IF success THEN Some(final_price) ELSE None,
        logs |-> logs,
        aggregated_log |-> aggregated_log]

(***************************************************************************)
(* The catalog after bootstrap                                             *)
(***************************************************************************)
DspUrl == "http://localhost:9001/bid"

DemandTimeouts == {Some(100)}

\* model/dsp.rs generate_demand_manager: ids 1..n, at least one enabled
DemandCatalogs ==
    {dm \in [1..MaxDsp -> [id : 1..MaxDsp, name : {"mock_dsp"}, url : {DspUrl},
                           status : BOOLEAN, timeout : DemandTimeouts]] :
        /\ \A d \in 1..MaxDsp : dm[d].id = d
        /\ \E d \in 1..MaxDsp : dm[d].status}

SspPlacementCatalog ==
    <<[ssp_id |-> 1, ssp_uuid |-> "ssp-1", placement_id |-> "p-1", ad_type |-> 2,
       update_time |-> 0, status |-> 1]>>

DspPlacementOf(d, rate) ==
    [dsp_id |-> d, dsp_uuid |-> "dsp-uuid", tag_id |-> "tag-1", custom_ad_type |-> "banner",
     profit_rate |-> rate, auth |-> "{}", update_time |-> 0, status |-> 1]

\* profit rates in thousandths
DspPlacementCatalogs ==
    {<<>>, <<DspPlacementOf(1, 500)>>}

\* every demand of the catalog, enabled or not
active_demands_all(dm) ==
    {[i \in 1..Cardinality(DOMAIN dm) |-> dm[p[i]]] : p \in Perms(DOMAIN dm)}

\* model/dsp.rs DemandManager::active_demands: the enabled demands, in the
\* iteration order of the HashMap, which is any order
active_demands(dm) ==
    LET ids == {d \in DOMAIN dm : dm[d].status}
    IN {[i \in 1..Cardinality(ids) |-> dm[p[i]]] : p \in Perms(ids)}

get_ssp_placements == ssp_placements

(***************************************************************************)
(* The requests                                                            *)
(***************************************************************************)
BidRequests ==
    {[id |-> "R1", imp |-> <<[id |-> "i1"], [id |-> "i2"]>>, tmax |-> t] : t \in {Some(250)}}

SspUuids == {"ssp-1", "ssp-unknown"}

Latencies == {20}

(***************************************************************************)
(* State machine                                                           *)
(***************************************************************************)
\* engine_result before the engine has run: what it returned, and its locals
\* results, checked_bids, original_price and final_price at the return
\* the parts of the state that the auction of one request leaves alone
FetchIdle == gather = "none" /\ fetch_results = <<>> /\ completion_order = <<>>

ConfigIdle ==
    /\ update_pc = "idle"
    /\ update_args = <<>>
    /\ reader_pc = "idle"
    /\ read_ssp = <<>>
    /\ read_dsp = <<>>

AdmIdle == adm_in = None /\ adm_price = 0 /\ adm_replaced = None /\ adm_out = None

\* no logger has been constructed
NoWorker == [pc |-> "none", pending |-> {}, writing |-> ""]

LoggerIdle ==
    /\ channel = <<>>
    /\ send_waiters = <<>>
    /\ caller_pc = <<>>
    /\ buffers = <<>>
    /\ log_files = <<>>
    /\ worker = NoWorker
    /\ log_seq = 0
    /\ shutdown_marks = <<>>

NoEngineResult ==
    [returned |-> None, results |-> <<>>, checked_bids |-> <<>>,
     original_price |-> None, final_price |-> None]

Init ==
    /\ demands \in DemandCatalogs
    /\ ssp_placements = SspPlacementCatalog
    /\ dsp_placements \in DspPlacementCatalogs
    /\ pc = "idle"
    /\ ssp_uuid = ""
    /\ bid_request = [id |-> "", imp |-> <<>>, tmax |-> None]
    /\ tasks = <<>>
    /\ log_manager = <<>>
    /\ runtime_logger = <<>>
    /\ engine_result = NoEngineResult
    /\ http_response = [status |-> 0, body |-> EmptyBidResponse]
    /\ FetchIdle
    /\ ConfigIdle
    /\ AdmIdle
    /\ LoggerIdle

\* handlers.rs handle_openrtb_request up to the call of the engine, then
\* engine.rs 71-75 and dsp_client.rs fetch_bids up to the join: the SSP
\* placement is looked up (a miss panics) and one task is spawned per
\* active demand
HandleRequest ==
    /\ pc = "idle"
    /\ \E request \in BidRequests, uuid \in SspUuids :
          /\ ssp_uuid' = uuid
          /\ bid_request' = request
          /\ IF \E i \in 1..Len(get_ssp_placements) : get_ssp_placements[i].ssp_uuid = uuid
             THEN /\ pc' = "fetching"
                  /\ \E active \in active_demands(demands) :
                        tasks' = [i \in 1..Len(active) |->
                                    [dsp_id |-> active[i].id, url |-> active[i].url,
                                     timeout_duration |-> timeout_duration(active[i], request),
                                     state |-> "running",
                                     result |-> None]]
             ELSE /\ pc' = "panicked"
                  /\ UNCHANGED tasks
    /\ UNCHANGED <<demands, ssp_placements, dsp_placements, log_manager, runtime_logger,
                   engine_result, http_response>>
    /\ UNCHANGED <<fetch_vars, config_vars, adm_vars, logger_vars>>

\* dsp_client.rs 47-114: a running task comes to its outcome
DspTaskFinish ==
    /\ pc = "fetching"
    /\ \E i \in 1..Len(tasks) :
          /\ tasks[i].state = "running"
          /\ \E outcome \in DspOutcomes(tasks[i].dsp_id, bid_request.id),
                latency \in Latencies :
                LET elapsed == IF outcome.kind = "timeout"
                               THEN tasks[i].timeout_duration ELSE latency
                IN tasks' = [tasks EXCEPT
                               ![i].state = "done",
                               ![i].result = Some(task_result(tasks[i], outcome, elapsed))]
    /\ UNCHANGED <<demands, ssp_placements, dsp_placements, pc, ssp_uuid, bid_request,
                   log_manager, runtime_logger, engine_result, http_response>>
    /\ UNCHANGED <<fetch_vars, config_vars, adm_vars, logger_vars>>

\* the results gathered in the order the tasks finished, sorted by price
fetch_bids_completion_order(ts) ==
    sort_by_price_desc([k \in 1..Len(completion_order) |->
                          Unwrap(ts[completion_order[k]].result)])

\* dsp_client.rs 118-126: the results of the joined tasks, in task order,
\* sorted by price
fetch_bids(ts) == sort_by_price_desc([i \in 1..Len(ts) |-> Unwrap(ts[i].result)])

\* dsp_client.rs 118-126 and engine.rs 77-210: every task has finished, the
\* gather returns and the engine runs to its return
ProcessBidRequest ==
    /\ pc = "fetching"
    /\ \A i \in 1..Len(tasks) : tasks[i].state = "done"
    /\ LET r == process_bid_request(bid_request, fetch_bids(tasks))
       IN /\ engine_result' = [returned |-> r.returned, results |-> r.results,
                                checked_bids |-> r.checked_bids,
                                original_price |-> r.original_price,
                                final_price |-> r.final_price]
          /\ log_manager' = log_manager \o r.logs
          /\ runtime_logger' = Append(runtime_logger,
                                      [level |-> "INFO", entry |-> r.aggregated_log])
    /\ pc' = "engine_returned"
    /\ UNCHANGED <<demands, ssp_placements, dsp_placements, ssp_uuid, bid_request, tasks,
                   http_response>>
    /\ UNCHANGED <<fetch_vars, config_vars, adm_vars, logger_vars>>

\* the no-fill response without its nbr
NoContentResponse_no_nbr(request) ==
    [id |-> request.id, seatbid |-> <<>>, bidid |-> None, cur |-> Some("USD"),
     customdata |-> None, nbr |-> None]

\* handlers.rs 67-74: the no-fill response
NoContentResponse(request) ==
    [id |-> request.id, seatbid |-> <<>>, bidid |-> None, cur |-> Some("USD"),
     customdata |-> None, nbr |-> Some(3)]

StatusOk == 200
StatusNoContent == 204

\* handlers.rs 51-77: the handler answers
HandlerRespond ==
    /\ pc = "engine_returned"
    /\ IF IsSome(engine_result.returned) /\ Unwrap(engine_result.returned).seatbid # <<>>
       THEN LET response == Unwrap(engine_result.returned)
            IN /\ runtime_logger' =
                     Append(runtime_logger,
                            [level |-> "INFO",
                             entry |-> [request_id |-> response.id,
                                        adx_log |-> "adx_inquiry_success",
                                        winning_price |-> response.seatbid[1].bid[1].price]])
               /\ http_response' = [status |-> StatusOk, body |-> response]
       ELSE /\ runtime_logger' =
                  Append(runtime_logger,
                         [level |-> "ERROR",
                          entry |-> [request_id |-> bid_request.id,
                                     adx_log |-> "adx_inquiry_failed"]])
            /\ http_response' = [status |-> StatusNoContent,
                                 body |-> NoContentResponse(bid_request)]
    /\ pc' = "responded"
    /\ UNCHANGED <<demands, ssp_placements, dsp_placements, ssp_uuid, bid_request, tasks,
                   log_manager, engine_result>>
    /\ UNCHANGED <<fetch_vars, config_vars, adm_vars, logger_vars>>

Next ==
    \/ HandleRequest
    \/ DspTaskFinish
    \/ ProcessBidRequest
    \/ HandlerRespond

Spec == Init /\ [][Next]_vars

TypeOK == pc \in {"idle", "fetching", "engine_returned", "responded", "panicked"}

(***************************************************************************)
(* Properties                                                              *)
(***************************************************************************)
\* the engine has returned
Returned == pc \in {"engine_returned", "responded"}

\* the engine has returned a winner
HasWinner == Returned /\ IsSome(engine_result.returned)

\* the bid in seatbid[0].bid[0] of the engine's response
Winner == Unwrap(engine_result.returned).seatbid[1].bid[1]

\* C1: in every auction with a winner, the price of the bid returned in
\* seatbid[0].bid[0] equals final_price, the DSP's price after the markdown
C1_ReturnedPriceIsFinalPrice ==
    HasWinner => Winner.price = Unwrap(engine_result.final_price)

\* C2: a response returned by process_bid_request has the id of the
\* request, exactly one SeatBid with exactly one Bid, cur = "USD" and no
\* nbr, and the handler answers it with status 200
C2_WinnerResponseShape ==
    /\ HasWinner =>
          LET r == Unwrap(engine_result.returned)
          IN /\ r.id = bid_request.id
             /\ Len(r.seatbid) = 1
             /\ Len(r.seatbid[1].bid) = 1
             /\ r.cur = Some("USD")
             /\ r.nbr = None
    /\ (pc = "responded" /\ IsSome(engine_result.returned)) =>
          /\ http_response.status = 200
          /\ http_response.body = Unwrap(engine_result.returned)

C2_Witness ==
    /\ pc = "responded"
    /\ IsSome(engine_result.returned)
    /\ http_response.status = 200

\* C3: the impid of the returned bid is the id of an impression of the
\* originating BidRequest, whatever the DSPs answered
C3_WinnerImpInRequest ==
    HasWinner => \E i \in 1..Len(bid_request.imp) : bid_request.imp[i].id = Winner.impid

\* C4: when the engine returns no winner, the handler answers 204 with a
\* BidResponse that echoes the request id and has seatbid = [], nbr = 3
\* and cur = "USD"
C4_NoWinnerIsNoContent ==
    (pc = "responded"
     /\ (engine_result.returned = None \/ Unwrap(engine_result.returned).seatbid = <<>>)) =>
        /\ http_response.status = 204
        /\ http_response.body.id = bid_request.id
        /\ http_response.body.seatbid = <<>>
        /\ http_response.body.nbr = Some(3)
        /\ http_response.body.cur = Some("USD")

C4_Witness ==
    /\ pc = "responded"
    /\ engine_result.returned = None
    /\ http_response.status = 204
    /\ bid_request.id = "R1"

\* the bids of the responses that have no nbr and at least one seat bid, in
\* the order of the gathered results
ValidTraversal ==
    LET rs == engine_result.results
    IN Flatten([i \in 1..Len(rs) |->
                  IF rs[i].bid_response.nbr = None /\ rs[i].bid_response.seatbid # <<>>
                  THEN BidsOf(rs[i].bid_response) ELSE <<>>])

ClaimKeywords == {"forbidden", "banned", "restricted"}

\* adm holds a keyword or crid holds one
FieldHasKeyword(bid) ==
    \E w \in ClaimKeywords :
        \/ StrContains(UnwrapOr(bid.adm, ""), w)
        \/ StrContains(UnwrapOr(bid.crid, ""), w)

\* adm immediately followed by crid holds a keyword
ConcatHasKeyword(bid) ==
    \E w \in ClaimKeywords : StrContains(UnwrapOr(bid.adm, "") \o UnwrapOr(bid.crid, ""), w)

FieldClean(bid) == ~FieldHasKeyword(bid)

Survivors == SelectSeq(ValidTraversal, FieldClean)

\* w is bid b with its adm rewritten
SameBid(w, b) == [w EXCEPT !.adm = b.adm] = b

\* the entries of the LogManager with the given adx_log
LogEntries(kind) ==
    LET IsKind(e) == e.entry.adx_log = kind
    IN SelectSeq(log_manager, IsKind)

\* the aggregated log lines of the RuntimeLogger
AggregatedLogs ==
    LET IsAggregated(e) == "adx_inquiry_result" \in DOMAIN e.entry
    IN SelectSeq(runtime_logger, IsAggregated)

\* C5: when a bid survives filtering there is a winner, it is a surviving
\* bid with the highest price of all surviving bids, and of the bids with
\* that price it is the first in the traversal of the valid responses in
\* their price-sorted order
C5_WinnerIsFirstMaxSurvivor ==
    Returned =>
        LET s == Survivors
            rs == engine_result.results
        IN /\ \A i, j \in 1..Len(rs) : i < j => rs[i].price >= rs[j].price
           /\ (s # <<>>) <=> IsSome(engine_result.returned)
           /\ s # <<>> =>
                 \E k \in 1..Len(s) :
                    /\ SameBid(Winner, s[k])
                    /\ \A j \in 1..Len(s) : s[j].price <= s[k].price
                    /\ \A j \in 1..(k - 1) : s[j].price < s[k].price

\* two different surviving bids tie at the highest price and a winner is returned
C5_Witness ==
    /\ HasWinner
    /\ \E j, k \in 1..Len(Survivors) :
          /\ j < k
          /\ Survivors[j].price = Survivors[k].price
          /\ Survivors[j].id # Survivors[k].id
          /\ \A i \in 1..Len(Survivors) : Survivors[i].price <= Survivors[k].price
    /\ Len(ValidTraversal) > Len(Survivors)

\* C6 as stated: a bid is rejected iff its adm immediately followed by its
\* crid holds a keyword, a keyword that spans the two included
C6_RejectedIffConcatHasKeyword ==
    Returned =>
        \A i \in 1..Len(ValidTraversal) :
            (\E k \in 1..Len(LogEntries("bid_rejected")) :
                LogEntries("bid_rejected")[k].entry.bid_id = ValidTraversal[i].id)
            <=> ConcatHasKeyword(ValidTraversal[i])

\* C6 amended: a bid is rejected iff its adm holds a keyword or its crid
\* holds one; the rejected bids each have one bid_rejected entry with their
\* bid id, in order, and the winner is not one of them
C6_RejectedIffFieldHasKeyword ==
    Returned =>
        LET rejected == SelectSeq(ValidTraversal, FieldHasKeyword)
            entries == LogEntries("bid_rejected")
        IN /\ Len(entries) = Len(rejected)
           /\ \A k \in 1..Len(entries) :
                 /\ entries[k].level = "WARN"
                 /\ entries[k].entry.bid_id = rejected[k].id
                 /\ entries[k].entry.request_id = bid_request.id
           /\ HasWinner =>
                 \E i \in 1..Len(ValidTraversal) :
                    /\ SameBid(Winner, ValidTraversal[i])
                    /\ ~FieldHasKeyword(ValidTraversal[i])

\* a bid with a keyword in crid is rejected, a bid whose keyword spans adm
\* and crid is not, and a winner is returned
C6_Witness ==
    /\ HasWinner
    /\ LogEntries("bid_rejected") # <<>>
    /\ \E i \in 1..Len(ValidTraversal) :
          ConcatHasKeyword(ValidTraversal[i]) /\ ~FieldHasKeyword(ValidTraversal[i])

\* profit rates are in thousandths, like prices
\* the DSP whose response holds the winner: the first valid result with a
\* surviving bid that is the winner
WinnerDsp ==
    LET rs == engine_result.results
        holds(i) == /\ rs[i].bid_response.nbr = None
                    /\ \E b \in Range(BidsOf(rs[i].bid_response)) :
                          SameBid(Winner, b) /\ ~FieldHasKeyword(b)
        first == CHOOSE i \in 1..Len(rs) : holds(i) /\ \A j \in 1..(i - 1) : ~holds(j)
    IN rs[first].dsp_id

\* C7: final_price = original_price x (1 - profit_rate), where profit_rate
\* is that of the DSP placement the catalog holds for the winning DSP and
\* 0.20 when it holds none, and the adm carries this final_price in place
\* of {AUCTION_PRICE}
C7_FinalPriceUsesPlacementRate ==
    HasWinner =>
        LET placed == {i \in 1..Len(dsp_placements) : dsp_placements[i].dsp_id = WinnerDsp}
            rate == IF placed = {} THEN 200
                    ELSE dsp_placements[CHOOSE i \in placed : TRUE].profit_rate
            expected == (Unwrap(engine_result.original_price) * (1000 - rate)) \div 1000
        IN /\ Unwrap(engine_result.final_price) = expected
           /\ Unwrap(engine_result.original_price) = Winner.price
           /\ \A i \in 1..Len(Survivors) :
                 (SameBid(Winner, Survivors[i]) /\ IsSome(Survivors[i].adm)) =>
                     Winner.adm = Some(inject_ssp_tracking(
                                         StrReplace(Unwrap(Survivors[i].adm), "{AUCTION_PRICE}",
                                                    PriceToString(expected))))

\* the outcome is one the claim calls failed
SpecFailed(r) ==
    \/ r.status # "success"
    \/ IsSome(r.bid_response.nbr)
    \/ r.bid_response.seatbid = <<>>

SpecValid(r) == ~SpecFailed(r)

\* the entries of the failed-DSP log of the auction
FailedDspDetails ==
    IF LogEntries("dsp_inquiry_failed") = <<>> THEN <<>>
    ELSE LogEntries("dsp_inquiry_failed")[1].entry.details

\* C8: an outcome is treated as failed exactly when its status is not
\* success, or nbr is set, or its seatbid is empty: the bids considered
\* (rejected or surviving) are those of the other outcomes, and the
\* failed-DSP log has one entry per failed outcome, in order, with the DSP
\* id and the reason (the status in result when it is not success, the nbr
\* when one is set, no_seatbid otherwise)
C8_FailedDspPartition ==
    Returned =>
        LET rs == engine_result.results
            failed == SelectSeq(rs, SpecFailed)
            valid == SelectSeq(rs, SpecValid)
            details == FailedDspDetails
        IN /\ Len(engine_result.checked_bids) + Len(LogEntries("bid_rejected"))
                = Len(Flatten([i \in 1..Len(valid) |-> BidsOf(valid[i].bid_response)]))
           /\ Len(LogEntries("dsp_inquiry_failed")) = (IF failed = <<>> THEN 0 ELSE 1)
           /\ Len(details) = Len(failed)
           /\ \A k \in 1..Len(details) :
                 /\ details[k].dsp_id = failed[k].dsp_id
                 /\ details[k].result = failed[k].status
                 /\ IF IsSome(failed[k].bid_response.nbr)
                    THEN /\ "nbr" \in DOMAIN details[k]
                         /\ details[k].nbr = Unwrap(failed[k].bid_response.nbr)
                    ELSE /\ "reason" \in DOMAIN details[k]
                         /\ details[k].reason = "no_seatbid"
           /\ HasWinner => \E i \in 1..Len(valid) :
                              \E b \in Range(BidsOf(valid[i].bid_response)) : SameBid(Winner, b)

\* one DSP answered nbr with a seat bid, another timed out
C8_Witness ==
    /\ Returned
    /\ \E i \in 1..Len(engine_result.results) :
          /\ IsSome(engine_result.results[i].bid_response.nbr)
          /\ engine_result.results[i].bid_response.seatbid # <<>>
    /\ \E i \in 1..Len(engine_result.results) : engine_result.results[i].status = "timeout"
    /\ Len(FailedDspDetails) = 2

\* C9: when no DSP outcome is valid the engine emits adx_inquiry_failed
\* with reason all_dsp_failed, returns absent, and the aggregated log has
\* the outcome failed
C9_AllDspFailed ==
    (Returned /\ \A i \in 1..Len(engine_result.results) : SpecFailed(engine_result.results[i])) =>
        /\ Len(LogEntries("adx_inquiry_failed")) = 1
        /\ LogEntries("adx_inquiry_failed")[1].entry.reason = "all_dsp_failed"
        /\ LogEntries("adx_inquiry_failed")[1].entry.request_id = bid_request.id
        /\ engine_result.returned = None
        /\ Len(AggregatedLogs) = 1
        /\ AggregatedLogs[1].entry.adx_inquiry_result = "failed"

\* every DSP failed, each in a different way
C9_Witness ==
    /\ Returned
    /\ Len(engine_result.results) = 2
    /\ \A i \in 1..Len(engine_result.results) : SpecFailed(engine_result.results[i])
    /\ \E i, j \in 1..Len(engine_result.results) :
          /\ engine_result.results[i].status = "timeout"
          /\ IsSome(engine_result.results[j].bid_response.nbr)

\* C10: when a DSP response is valid but every bid of every valid response
\* is rejected by the filter, or the valid responses have no bid, the
\* engine emits adx_inquiry_failed with reason all_bids_filtered and not
\* all_dsp_failed, and returns absent
C10_AllBidsFiltered ==
    (/\ Returned
     /\ \E i \in 1..Len(engine_result.results) : SpecValid(engine_result.results[i])
     /\ \A i \in 1..Len(ValidTraversal) : FieldHasKeyword(ValidTraversal[i])) =>
        /\ Len(LogEntries("adx_inquiry_failed")) = 1
        /\ LogEntries("adx_inquiry_failed")[1].entry.reason = "all_bids_filtered"
        /\ engine_result.returned = None

\* one valid response has only rejected bids and another has no bid at all
C10_Witness ==
    /\ Returned
    /\ engine_result.returned = None
    /\ \E i, j \in 1..Len(engine_result.results) :
          /\ SpecValid(engine_result.results[i])
          /\ BidsOf(engine_result.results[i].bid_response) # <<>>
          /\ SpecValid(engine_result.results[j])
          /\ BidsOf(engine_result.results[j].bid_response) = <<>>
    /\ \A i \in 1..Len(ValidTraversal) : FieldHasKeyword(ValidTraversal[i])

\* the dsp_call_details of the aggregated log of the auction
DspCallDetails == AggregatedLogs[1].entry.dsp_call_details

\* C18: in every auction, successful or failed, the dsp_call_details of the
\* aggregated log has one entry per active demand and no other
C18_DetailsOnePerActiveDsp ==
    Returned =>
        /\ Len(AggregatedLogs) = 1
        /\ Len(DspCallDetails) = Len(tasks)
        /\ \A i \in 1..Len(tasks) :
              \E k \in 1..Len(DspCallDetails) :
                 /\ "dsp_id" \in DOMAIN DspCallDetails[k]
                 /\ DspCallDetails[k].dsp_id = tasks[i].dsp_id

\* C19: in every auction every entry of dsp_call_details has a bid_price
\* and the list is non-increasing in it
C19_DetailsSortedByBidPrice ==
    Returned =>
        /\ \A k \in 1..Len(DspCallDetails) : "bid_price" \in DOMAIN DspCallDetails[k]
        /\ \A j, k \in 1..Len(DspCallDetails) :
              j < k => DspCallDetails[j].bid_price >= DspCallDetails[k].bid_price

\* C24: a request whose ssp_uuid matches no SSP placement of the catalog is
\* answered 204 with nbr = 3: the handler does not panic and no auction is
\* run for it
C24_UnknownSspIsNoContent ==
    (pc # "idle" /\ \A i \in 1..Len(ssp_placements) : ssp_placements[i].ssp_uuid # ssp_uuid) =>
        /\ pc # "panicked"
        /\ tasks = <<>>
        /\ runtime_logger = <<>>
        /\ pc = "responded" =>
              /\ http_response.status = 204
              /\ http_response.body.nbr = Some(3)

\* C27: every auction emits exactly one aggregated log line, at level INFO,
\* with the request id, the outcome (success or failed) and the fields
\* winning_bid, dsp_call_details and elapsed_time_ms; the outcome is success
\* exactly when a winner is returned
C27_OneAggregatedLogLine ==
    Returned =>
        /\ Len(AggregatedLogs) = 1
        /\ AggregatedLogs[1].level = "INFO"
        /\ {"request_id", "adx_inquiry_result", "winning_bid", "dsp_call_details",
            "elapsed_time_ms"} \subseteq DOMAIN AggregatedLogs[1].entry
        /\ AggregatedLogs[1].entry.request_id = bid_request.id
        /\ AggregatedLogs[1].entry.adx_inquiry_result \in {"success", "failed"}
        /\ AggregatedLogs[1].entry.adx_inquiry_result = "success"
              <=> IsSome(engine_result.returned)

(***************************************************************************)
(* dsp_client.rs: fetch_bids, call by call.  Each spawned task awaits the  *)
(* response headers under its deadline, then decodes the body with no      *)
(* deadline; the caller awaits join_all and may be dropped while it waits. *)
(* Times are in ms since the task started.                                 *)
(***************************************************************************)
\* the Vec<Demand> given to DspClient::new: demands with an odd id carry a
\* timeout, those with an even id carry none
FetchDemandLists ==
    {dm \in [1..MaxDsp -> [id : 1..MaxDsp, name : {"mock_dsp"}, url : {DspUrl},
                           status : BOOLEAN, timeout : {None, Some(100)}]] :
        /\ \A d \in 1..MaxDsp : dm[d].id = d
        /\ \A d \in 1..MaxDsp : dm[d].timeout = (IF d % 2 = 1 THEN Some(100) ELSE None)
        /\ \E d \in 1..MaxDsp : dm[d].status}

FetchRequests ==
    {[id |-> "R1", imp |-> <<[id |-> "i1"], [id |-> "i2"]>>, tmax |-> t] :
        t \in {None, Some(200)}}

\* time from the start of a call to its response headers or transport error
SendLatencies == {20}

\* time the decoding of a response body takes
DecodeLatencies == {5, 400}

\* the bodies that parse, for a call by call run: no seat bid, or one seat
\* with the first k bids of the DSP
FetchBodies(d, req_id) ==
    {b \in DspBodies(d, req_id) :
        /\ b.nbr = None
        /\ b.seatbid = <<>> \/ (Len(b.seatbid) = 1 /\ b.seatbid[1].bid # <<>>)}

\* the variables of the auction that fetch_bids does not touch
auction_vars == <<demands, ssp_placements, dsp_placements, pc, ssp_uuid, bid_request,
                  log_manager, runtime_logger, engine_result, http_response>>

FetchInit ==
    /\ demands \in FetchDemandLists
    /\ ssp_placements = SspPlacementCatalog
    /\ dsp_placements = <<>>
    /\ pc = "fetching"
    /\ ssp_uuid = "ssp-1"
    /\ bid_request \in FetchRequests
    /\ tasks = <<>>
    /\ log_manager = <<>>
    /\ runtime_logger = <<>>
    /\ engine_result = NoEngineResult
    /\ http_response = [status |-> 0, body |-> EmptyBidResponse]
    /\ FetchIdle
    /\ ConfigIdle
    /\ AdmIdle
    /\ LoggerIdle

\* dsp_client.rs 38-116: one task is spawned per demand with status = true,
\* in the order of the demand list
SpawnTasks ==
    /\ gather = "none"
    /\ LET enabled(d) == d.status
           active == SelectSeq(demands, enabled)
       IN tasks' = [i \in 1..Len(active) |->
                      [dsp_id |-> active[i].id, url |-> active[i].url,
                       timeout_duration |-> timeout_duration(active[i], bid_request),
                       state |-> "sending", kind |-> "", http_status |-> 0,
                       parses |-> FALSE,
                       finished_at |-> 0, result |-> None]]
    /\ gather' = "joining"
    /\ UNCHANGED <<fetch_results, completion_order, auction_vars, config_vars, adm_vars, logger_vars>>

\* dsp_client.rs 49-54: send() resolves with a response before the deadline;
\* elapsed is taken here, before the body is read
HeadersArrive ==
    /\ gather \in {"joining", "dropped"}
    /\ \E i \in 1..Len(tasks) :
          /\ tasks[i].state = "sending"
          /\ \E latency \in SendLatencies, st \in HttpStatuses :
                /\ latency < tasks[i].timeout_duration
                /\ tasks' = [tasks EXCEPT ![i].state = "decoding",
                                          ![i].kind = "response",
                                          ![i].http_status = st,
                                          ![i].finished_at = latency]
    /\ UNCHANGED <<gather, fetch_results, completion_order, auction_vars, config_vars,
                   adm_vars, logger_vars>>

\* dsp_client.rs 83-97: send() resolves with an error before the deadline
TransportError ==
    /\ gather \in {"joining", "dropped"}
    /\ \E i \in 1..Len(tasks) :
          /\ tasks[i].state = "sending"
          /\ \E latency \in SendLatencies :
                /\ latency < tasks[i].timeout_duration
                /\ tasks' = [tasks EXCEPT
                               ![i].state = "done",
                               ![i].kind = "transport_error",
                               ![i].finished_at = latency,
                               ![i].result =
                                  Some(task_result(tasks[i],
                                                   [kind |-> "transport_error", http_status |-> 0,
                                                    parses |-> FALSE, body |-> EmptyBidResponse],
                                                   latency))]
          /\ completion_order' = Append(completion_order, i)
    /\ UNCHANGED <<gather, fetch_results, auction_vars, config_vars, adm_vars, logger_vars>>

\* dsp_client.rs 98-112: the deadline passes before send() resolves
TimeoutFires ==
    /\ gather \in {"joining", "dropped"}
    /\ \E i \in 1..Len(tasks) :
          /\ tasks[i].state = "sending"
          /\ tasks' = [tasks EXCEPT
                         ![i].state = "done",
                         ![i].kind = "timeout",
                         ![i].finished_at = tasks[i].timeout_duration,
                         ![i].result =
                            Some(task_result(tasks[i],
                                             [kind |-> "timeout", http_status |-> 0,
                                              parses |-> FALSE, body |-> EmptyBidResponse],
                                             tasks[i].timeout_duration))]
          /\ completion_order' = Append(completion_order, i)
    /\ UNCHANGED <<gather, fetch_results, auction_vars, config_vars, adm_vars, logger_vars>>

\* dsp_client.rs 57-81: resp.json() resolves, some time after the headers,
\* with a BidResponse or with an error; the elapsed it reports is the time
\* of the headers
BodyDecoded ==
    /\ gather \in {"joining", "dropped"}
    /\ \E i \in 1..Len(tasks) :
          /\ tasks[i].state = "decoding"
          /\ \E took \in DecodeLatencies,
                outcome \in {[kind |-> "response", http_status |-> tasks[i].http_status,
                              parses |-> FALSE, body |-> EmptyBidResponse]}
                            \cup {[kind |-> "response", http_status |-> tasks[i].http_status,
                                   parses |-> TRUE, body |-> b] :
                                    b \in FetchBodies(tasks[i].dsp_id, bid_request.id)} :
                tasks' = [tasks EXCEPT
                            ![i].state = "done",
                            ![i].parses = outcome.parses,
                            ![i].finished_at = tasks[i].finished_at + took,
                            ![i].result =
                               Some(task_result(tasks[i], outcome, tasks[i].finished_at))]
          /\ completion_order' = Append(completion_order, i)
    /\ UNCHANGED <<gather, fetch_results, auction_vars, config_vars, adm_vars, logger_vars>>

\* dsp_client.rs 57: the DSP sends the headers and never ends the body;
\* nothing bounds resp.json(), so the task waits for ever
BodyStalls ==
    /\ gather \in {"joining", "dropped"}
    /\ \E i \in 1..Len(tasks) :
          /\ tasks[i].state = "decoding"
          /\ tasks' = [tasks EXCEPT ![i].state = "stalled"]
    /\ UNCHANGED <<gather, fetch_results, completion_order, auction_vars, config_vars,
                   adm_vars, logger_vars>>

\* dsp_client.rs 118-126: join_all resolves when every task has finished
JoinAll ==
    /\ gather = "joining"
    /\ \A i \in 1..Len(tasks) : tasks[i].state = "done"
    /\ fetch_results' = fetch_bids(tasks)
    /\ gather' = "returned"
    /\ UNCHANGED <<tasks, completion_order, auction_vars, config_vars, adm_vars, logger_vars>>

\* the future of fetch_bids is dropped while it awaits join_all; the
\* JoinHandles it held are dropped with it, which detaches the tasks
DropCaller ==
    /\ gather = "joining"
    /\ gather' = "dropped"
    /\ UNCHANGED <<tasks, fetch_results, completion_order, auction_vars, config_vars,
                   adm_vars, logger_vars>>

FetchNext ==
    \/ SpawnTasks
    \/ HeadersArrive
    \/ TransportError
    \/ TimeoutFires
    \/ BodyDecoded
    \/ BodyStalls
    \/ JoinAll
    \/ DropCaller

FetchSpec == FetchInit /\ [][FetchNext]_vars

\* the runtime polls every task and the joined future, the timers fire and
\* a body that has arrived is decoded; that a DSP answers, or that the
\* caller is dropped, is up to the network
FetchFairSpec ==
    /\ FetchSpec
    /\ WF_vars(SpawnTasks)
    /\ WF_vars(TimeoutFires)
    /\ WF_vars(BodyDecoded)
    /\ WF_vars(JoinAll)

(***************************************************************************)
(* Properties of fetch_bids                                                *)
(***************************************************************************)
\* the tasks that have come to their outcome
DoneTasks == {i \in 1..Len(tasks) : tasks[i].state = "done"}

\* C11: no call outlives its deadline: a call finishes by its deadline, one
\* whose response is not complete (headers and decoded body) by the
\* deadline is classified timeout with an empty BidResponse, and the
\* elapsed it reports is the time at which it finished
C11_NoCallOutlivesDeadline ==
    \A i \in DoneTasks :
        LET r == Unwrap(tasks[i].result)
        IN /\ tasks[i].finished_at <= tasks[i].timeout_duration
           /\ tasks[i].finished_at >= tasks[i].timeout_duration =>
                 (r.status = "timeout" /\ r.bid_response = EmptyBidResponse)
           /\ r.elapsed = tasks[i].finished_at

\* C12: a transport failure or a non-2xx status is invalid_response with an
\* empty BidResponse and price 0, a 2xx response whose body does not parse
\* is json_parse_error, and only a 2xx response that parses is success
C12_ClassifiedByStatusAndBody ==
    \A i \in DoneTasks :
        LET r == Unwrap(tasks[i].result)
            is2xx == tasks[i].http_status \in 200..299
        IN /\ (tasks[i].kind = "transport_error" \/ (tasks[i].kind = "response" /\ ~is2xx)) =>
                 (r.status = "invalid_response" /\ r.bid_response = EmptyBidResponse
                  /\ r.price = 0)
           /\ (tasks[i].kind = "response" /\ is2xx /\ ~tasks[i].parses) =>
                 r.status = "json_parse_error"
           /\ r.status = "success" <=>
                 (tasks[i].kind = "response" /\ is2xx /\ tasks[i].parses)

\* the deadline the claim gives a call of demand d
ClaimedDeadline(d) ==
    IF d.timeout # None THEN d.timeout[1]
    ELSE IF bid_request.tmax # None THEN bid_request.tmax[1]
    ELSE 250

\* C13: the deadline of a call is Demand.timeout when there is one, else
\* BidRequest.tmax when there is one, else 250 ms: headers are accepted
\* only before it and a call that times out reports it as elapsed
C13_EffectiveDeadline ==
    \A i \in 1..Len(tasks) :
        LET deadline == ClaimedDeadline(demands[tasks[i].dsp_id])
        IN /\ tasks[i].timeout_duration = deadline
           /\ tasks[i].state = "decoding" => tasks[i].finished_at < deadline
           /\ (tasks[i].state = "done" /\ tasks[i].kind = "timeout") =>
                 Unwrap(tasks[i].result).elapsed = deadline

\* the request has no tmax; a call of a demand with a timeout timed out at
\* 100 ms and a call of a demand without one at 250 ms
C13_Witness ==
    /\ bid_request.tmax = None
    /\ \E i, j \in DoneTasks :
          /\ demands[tasks[i].dsp_id].timeout = Some(100)
          /\ tasks[i].kind = "timeout" /\ Unwrap(tasks[i].result).elapsed = 100
          /\ demands[tasks[j].dsp_id].timeout = None
          /\ tasks[j].kind = "timeout" /\ Unwrap(tasks[j].result).elapsed = 250

\* C14: fetch_bids returns only when every call has come to its outcome,
\* and, unless its caller is dropped, it eventually returns
C14_FetchBidsReturns ==
    /\ [](gather = "returned" => DoneTasks = 1..Len(tasks))
    /\ <>(gather \in {"returned", "dropped"})

\* position of the task of DSP id in the task list
TaskIndex(id) == CHOOSE i \in 1..Len(tasks) : tasks[i].dsp_id = id

\* C15: the list fetch_bids returns holds the outcome of every call, by
\* price descending, outcomes of equal price in the order of their demands
\* in the demand list, whatever the order in which the calls finished
C15_ResultsByPriceThenDemandOrder ==
    gather = "returned" =>
        /\ Len(fetch_results) = Len(tasks)
        /\ \A i \in 1..Len(tasks) :
              \E p \in 1..Len(fetch_results) : fetch_results[p] = Unwrap(tasks[i].result)
        /\ \A p, q \in 1..Len(fetch_results) :
              p < q =>
                 \/ fetch_results[p].price > fetch_results[q].price
                 \/ /\ fetch_results[p].price = fetch_results[q].price
                    /\ TaskIndex(fetch_results[p].dsp_id) < TaskIndex(fetch_results[q].dsp_id)

\* two calls have the same price above 0 and the one of the later demand
\* finished first
C15_Witness ==
    /\ gather = "returned"
    /\ Len(tasks) >= 2
    /\ Unwrap(tasks[1].result).price = Unwrap(tasks[2].result).price
    /\ Unwrap(tasks[1].result).price > 0
    /\ \E a, b \in 1..Len(completion_order) :
          a < b /\ completion_order[a] = 2 /\ completion_order[b] = 1

\* C16: once the caller of fetch_bids is dropped no task of the auction
\* takes another step
C16_NoTaskRunsAfterDrop ==
    [][gather = "dropped" => tasks' = tasks]_vars

(***************************************************************************)
(* engine.rs: process_bid_request over fetch_bids call by call, for the    *)
(* auctions whose calls outlast the tmax of the request.                   *)
(***************************************************************************)
\* requests with a tmax shorter than a round trip, and with a long one
AuctionRequests ==
    {[id |-> "R1", imp |-> <<[id |-> "i1"], [id |-> "i2"]>>, tmax |-> Some(t)] :
        t \in {10, 200}}

\* the demand lists of the auctions followed to their end: one or two
\* active demands
AuctionDemandLists ==
    {dm \in FetchDemandLists : Cardinality({d \in 1..MaxDsp : dm[d].status}) <= 2}

AuctionInit ==
    /\ demands \in AuctionDemandLists
    /\ ssp_placements = SspPlacementCatalog
    /\ dsp_placements = <<>>
    /\ pc = "fetching"
    /\ ssp_uuid = "ssp-1"
    /\ bid_request \in AuctionRequests
    /\ tasks = <<>>
    /\ log_manager = <<>>
    /\ runtime_logger = <<>>
    /\ engine_result = NoEngineResult
    /\ http_response = [status |-> 0, body |-> EmptyBidResponse]
    /\ FetchIdle
    /\ ConfigIdle
    /\ AdmIdle
    /\ LoggerIdle

\* engine.rs 75-210: fetch_bids has returned and the engine runs to its
\* return
RunEngine ==
    /\ pc = "fetching"
    /\ gather = "returned"
    /\ LET r == process_bid_request(bid_request, fetch_results)
       IN /\ engine_result' = [returned |-> r.returned, results |-> r.results,
                                checked_bids |-> r.checked_bids,
                                original_price |-> r.original_price,
                                final_price |-> r.final_price]
          /\ log_manager' = log_manager \o r.logs
          /\ runtime_logger' = Append(runtime_logger,
                                      [level |-> "INFO", entry |-> r.aggregated_log])
    /\ pc' = "engine_returned"
    /\ UNCHANGED <<demands, ssp_placements, dsp_placements, ssp_uuid, bid_request, tasks,
                   http_response>>
    /\ UNCHANGED <<fetch_vars, config_vars, adm_vars, logger_vars>>

AuctionNext ==
    \/ FetchNext
    \/ RunEngine

AuctionSpec == AuctionInit /\ [][AuctionNext]_vars

\* the time at which join_all resolved: the latest end of a call; the
\* auction has taken at least as long
AuctionElapsed == MaxOf({0} \cup {tasks[i].finished_at : i \in 1..Len(tasks)})

\* the WARN entries of both loggers that are not the rejection of a bid
OverrunWarnings ==
    LET IsOverrun(e) ==
            /\ e.level = "WARN"
            /\ "adx_log" \in DOMAIN e.entry => e.entry.adx_log # "bid_rejected"
    IN SelectSeq(log_manager \o runtime_logger, IsOverrun)

\* C25: when an auction finds a winner and has taken longer than the tmax
\* of the request, a WARN entry noting the overrun is emitted for it
C25_OverrunIsWarned ==
    (/\ pc = "engine_returned"
     /\ IsSome(engine_result.returned)
     /\ AuctionElapsed > Unwrap(bid_request.tmax)) =>
        OverrunWarnings # <<>>

\* the calls of demands with a deadline of their own, longer than the tmax
\* of the request
OwnDeadlineTasks ==
    {i \in 1..Len(tasks) :
        /\ IsSome(demands[tasks[i].dsp_id].timeout)
        /\ Unwrap(demands[tasks[i].dsp_id].timeout) > Unwrap(bid_request.tmax)}

\* the call was answered, headers and body, after the tmax of the request
\* and before its own deadline, with a body that parses
AnsweredLate(i) ==
    /\ tasks[i].state = "done"
    /\ tasks[i].kind = "response"
    /\ tasks[i].parses
    /\ tasks[i].finished_at > Unwrap(bid_request.tmax)
    /\ tasks[i].finished_at < Unwrap(demands[tasks[i].dsp_id].timeout)

\* the bids of a result that the engine can select
SelectableBids(r) ==
    IF r.bid_response.nbr = None THEN SelectSeq(BidsOf(r.bid_response), FieldClean) ELSE <<>>

\* C26: the tmax of the request never aborts a call that has a deadline of
\* its own: such a call waits for its answer up to its own deadline and
\* times out only then, a call answered after tmax and before its own
\* deadline is a success, and when such a call brings a bid that passes the
\* filter the auction returns a winner
C26_TmaxDoesNotAbortOwnDeadline ==
    /\ \A i \in OwnDeadlineTasks :
          /\ tasks[i].timeout_duration = Unwrap(demands[tasks[i].dsp_id].timeout)
          /\ (tasks[i].state = "done" /\ tasks[i].kind = "timeout") =>
                 Unwrap(tasks[i].result).elapsed = Unwrap(demands[tasks[i].dsp_id].timeout)
          /\ AnsweredLate(i) => Unwrap(tasks[i].result).status = "success"
    /\ (/\ pc = "engine_returned"
        /\ \E i \in OwnDeadlineTasks :
              AnsweredLate(i) /\ SelectableBids(Unwrap(tasks[i].result)) # <<>>) =>
          IsSome(engine_result.returned)

\* the request has tmax 10; the only call that brought a bid has a deadline
\* of 100, was answered at 25, and its bid is the winner
C26_Witness ==
    /\ pc = "engine_returned"
    /\ bid_request.tmax = Some(10)
    /\ IsSome(engine_result.returned)
    /\ \E i \in OwnDeadlineTasks :
          /\ AnsweredLate(i)
          /\ tasks[i].finished_at = 25
          /\ \E b \in Range(BidsOf(Unwrap(tasks[i].result).bid_response)) : SameBid(Winner, b)
          /\ \A j \in 1..Len(tasks) : j # i => Unwrap(tasks[j].result).status = "timeout"

(***************************************************************************)
(* config_manager.rs: update_placements against a reader of both           *)
(* placement sets.  Each set is behind its own RwLock, so each write and   *)
(* each read of one set is one step.  The update_time of a placement is    *)
(* the generation of the set that holds it.                                *)
(***************************************************************************)
SspPlacementsOf(g) == <<[SspPlacementCatalog[1] EXCEPT !.update_time = g]>>

DspPlacementsOf(g) == <<[DspPlacementOf(1, 500) EXCEPT !.update_time = g]>>

\* the generation of a placement set; the sets of ConfigManager::new are
\* empty and of generation 0
GenerationOf(placements) == IF placements = <<>> THEN 0 ELSE placements[1].update_time

\* the variables update_placements and the getters do not touch
not_config_vars == <<demands, pc, ssp_uuid, bid_request, tasks, log_manager,
                     runtime_logger, engine_result, http_response>>

\* config_manager.rs 18-24: ConfigManager::new
ConfigInit ==
    /\ demands = [d \in 1..MaxDsp |->
                    [id |-> d, name |-> "mock_dsp", url |-> DspUrl, status |-> TRUE,
                     timeout |-> Some(100)]]
    /\ ssp_placements = <<>>
    /\ dsp_placements = <<>>
    /\ pc = "idle"
    /\ ssp_uuid = ""
    /\ bid_request = [id |-> "", imp |-> <<>>, tmax |-> None]
    /\ tasks = <<>>
    /\ log_manager = <<>>
    /\ runtime_logger = <<>>
    /\ engine_result = NoEngineResult
    /\ http_response = [status |-> 0, body |-> EmptyBidResponse]
    /\ FetchIdle
    /\ ConfigIdle
    /\ AdmIdle
    /\ LoggerIdle

\* config_manager.rs 46: update_placements is called with the two sets of
\* the next generation
UpdateCall ==
    /\ update_pc = "idle"
    /\ GenerationOf(dsp_placements) < MaxUpdates
    /\ LET g == GenerationOf(dsp_placements) + 1
       IN update_args' = <<[ssp |-> SspPlacementsOf(g), dsp |-> DspPlacementsOf(g)]>>
    /\ update_pc' = "write_ssp"
    /\ UNCHANGED <<ssp_placements, dsp_placements, reader_pc, read_ssp, read_dsp,
                   not_config_vars, fetch_vars, adm_vars, logger_vars>>

\* config_manager.rs 47-50
UpdateWriteSsp ==
    /\ update_pc = "write_ssp"
    /\ ssp_placements' = update_args[1].ssp
    /\ update_pc' = "write_dsp"
    /\ UNCHANGED <<dsp_placements, update_args, reader_pc, read_ssp, read_dsp,
                   not_config_vars, fetch_vars, adm_vars, logger_vars>>

\* config_manager.rs 51-55
UpdateWriteDsp ==
    /\ update_pc = "write_dsp"
    /\ dsp_placements' = update_args[1].dsp
    /\ update_pc' = "idle"
    /\ update_args' = <<>>
    /\ UNCHANGED <<ssp_placements, reader_pc, read_ssp, read_dsp,
                   not_config_vars, fetch_vars, adm_vars, logger_vars>>

\* config_manager.rs 38-40: the reader calls get_ssp_placements, first or
\* second
ReadSsp ==
    /\ reader_pc \in {"idle", "got_dsp"}
    /\ read_ssp' = ssp_placements
    /\ reader_pc' = IF reader_pc = "idle" THEN "got_ssp" ELSE "done"
    /\ UNCHANGED <<ssp_placements, dsp_placements, update_pc, update_args, read_dsp,
                   not_config_vars, fetch_vars, adm_vars, logger_vars>>

\* config_manager.rs 42-44: the reader calls get_dsp_placements, first or
\* second
ReadDsp ==
    /\ reader_pc \in {"idle", "got_ssp"}
    /\ read_dsp' = dsp_placements
    /\ reader_pc' = IF reader_pc = "idle" THEN "got_dsp" ELSE "done"
    /\ UNCHANGED <<ssp_placements, dsp_placements, update_pc, update_args, read_ssp,
                   not_config_vars, fetch_vars, adm_vars, logger_vars>>

\* the reader starts over
ReadAgain ==
    /\ reader_pc = "done"
    /\ reader_pc' = "idle"
    /\ read_ssp' = <<>>
    /\ read_dsp' = <<>>
    /\ UNCHANGED <<ssp_placements, dsp_placements, update_pc, update_args,
                   not_config_vars, fetch_vars, adm_vars, logger_vars>>

ConfigNext ==
    \/ UpdateCall
    \/ UpdateWriteSsp
    \/ UpdateWriteDsp
    \/ ReadSsp
    \/ ReadDsp
    \/ ReadAgain

ConfigSpec == ConfigInit /\ [][ConfigNext]_vars

\* C17: a reader that gets both placement sets while update_placements runs
\* sees both sets of one generation
C17_ReaderSeesOneGeneration ==
    reader_pc = "done" => GenerationOf(read_ssp) = GenerationOf(read_dsp)

(***************************************************************************)
(* engine.rs 168-177: the adm of the winner is rewritten.  The adm and the *)
(* price of the winner are drawn from sets; the step applies rewrite_adm.  *)
(***************************************************************************)
\* what a DSP may put inside its markup
AdmPayloads ==
    {"", "{AUCTION_PRICE}", "a{AUCTION_PRICE}b{AUCTION_PRICE}", "{AUCTION_"}

\* the markups a DSP may send around a payload
AdmTexts ==
    UNION {{"<html><body>" \o x \o "</body></html>",
            "<html>" \o x,
            "<VAST><Ad><InLine>" \o x \o "</InLine></Ad></VAST>",
            "<VAST>" \o x \o "</VAST>",
            "{\"title\":\"" \o x \o "\"}",
            " {\"ssp_click_tracking\":\"" \o x \o "\",\"b\":1}",
            "{\"title\":" \o x,
            "{" \o x \o "}",
            "Ad " \o x} : x \in AdmPayloads}
    \cup {"{\"title\":\"\\u007bAUCTION_PRICE}\"}", "{\"title\":\"a\\\\u007bAUCTION_PRICE}\"}"}
    \cup {"<html><body>a</body><p>b</body></html>",
          "<VAST><html></body><InLine>a</body>",
          "</BODY><html>",
          "<VAST><InLine><Ad><InLine>{AUCTION_PRICE}</InLine></VAST>",
          "<VAST><Ad><Wrapper></Wrapper></Ad></VAST>",
          "{} ",
          "\n{\"ssp_impression_tracking\":null,\"a\":{\"b\":[1,2]}}"}

\* final prices, in thousandths
AdmPrices == {1600, 2000, 4000}

AdmInit ==
    /\ demands = [d \in 1..MaxDsp |->
                    [id |-> d, name |-> "mock_dsp", url |-> DspUrl, status |-> TRUE,
                     timeout |-> Some(100)]]
    /\ ssp_placements = SspPlacementCatalog
    /\ dsp_placements = <<>>
    /\ pc = "winner_selected"
    /\ ssp_uuid = "ssp-1"
    /\ bid_request = [id |-> "R1", imp |-> <<[id |-> "i1"]>>, tmax |-> None]
    /\ tasks = <<>>
    /\ log_manager = <<>>
    /\ runtime_logger = <<>>
    /\ engine_result = NoEngineResult
    /\ http_response = [status |-> 0, body |-> EmptyBidResponse]
    /\ FetchIdle
    /\ ConfigIdle
    /\ adm_in \in {None} \cup {Some(a) : a \in AdmTexts}
    /\ adm_price \in AdmPrices
    /\ adm_replaced = None
    /\ adm_out = None
    /\ LoggerIdle

\* engine.rs 172-177
RewriteAdm ==
    /\ pc = "winner_selected"
    /\ adm_replaced' = IF IsSome(adm_in)
                       THEN Some(dsp_adm_replaced(Unwrap(adm_in), adm_price))
                       ELSE None
    /\ adm_out' = rewrite_adm(adm_in, adm_price)
    /\ pc' = "adm_rewritten"
    /\ UNCHANGED <<demands, ssp_placements, dsp_placements, ssp_uuid, bid_request, tasks,
                   log_manager, runtime_logger, engine_result, http_response,
                   fetch_vars, config_vars, adm_in, adm_price, logger_vars>>

AdmNext == RewriteAdm

AdmSpec == AdmInit /\ [][AdmNext]_vars

\* number of occurrences of w in s
Count(s, w) == Cardinality({i \in 1..(Len(s) - Len(w) + 1) : SubSeq(s, i, i + Len(w) - 1) = w})

\* the returned adm without the tracking URLs of the ADX
WithoutAdxUrls(s) == StrReplace(StrReplace(s, SspImpressionUrl, ""), SspClickUrl, "")

\* the tracking URLs of the ADX up to the value of their price parameter
AdxPriceParams == {"http://tk.rust-adx.com/impression?price=", "http://tk.rust-adx.com/click?price="}

\* C20: in the adm returned for a winner no {AUCTION_PRICE} is left outside
\* the tracking the ADX injected, and every tracking URL of the ADX in it
\* has {AUCTION_PRICE} as its price, unexpanded
C20_MacroOnlyInAdxTracking ==
    (pc = "adm_rewritten" /\ adm_in # None) =>
        /\ adm_out # None
        /\ ~StrContains(WithoutAdxUrls(adm_out[1]), "{AUCTION_PRICE}")
        /\ \A u \in AdxPriceParams :
              Count(adm_out[1], u) = Count(adm_out[1], u \o "{AUCTION_PRICE}")

\* the adm given to inject_ssp_tracking for the winner
Injected == adm_replaced[1]

\* the winner had an adm, it has been rewritten, and what was given to
\* inject_ssp_tracking is a banner
BannerRewritten ==
    pc = "adm_rewritten" /\ adm_in # None /\ StrContains(Injected, "<html")

MemberValues(members, key) ==
    LET hits == {i \in 1..Len(members) : members[i].key = key}
    IN IF Cardinality(hits) = 1 THEN <<members[CHOOSE i \in hits : TRUE].value>> ELSE <<>>

\* the adm given to inject_ssp_tracking is a native ad: after leading
\* whitespace it starts with { and it contains neither <html nor <VAST
NativeRewritten ==
    /\ pc = "adm_rewritten" /\ adm_in # None
    /\ ~StrContains(Injected, "<html") /\ ~StrContains(Injected, "<VAST")
    /\ StartsWith(TrimStart(Injected), "{")

\* C23: for a native adm that parses as JSON the returned adm is a JSON
\* object with the top-level string fields ssp_impression_tracking and
\* ssp_click_tracking, whose URLs carry {AUCTION_PRICE}; one that does not
\* parse is passed through unchanged
C23_NativeTrackingFields ==
    NativeRewritten =>
        IF JsonParseObject(Injected).ok
        THEN LET out == JsonParseObject(adm_out[1])
             IN /\ out.ok
                /\ MemberValues(out.members, "ssp_impression_tracking")
                      = <<"\"http://tk.rust-adx.com/impression?price={AUCTION_PRICE}\"">>
                /\ MemberValues(out.members, "ssp_click_tracking")
                      = <<"\"http://tk.rust-adx.com/click?price={AUCTION_PRICE}\"">>
                /\ \A i \in 1..Len(JsonParseObject(Injected).members) :
                      \E j \in 1..Len(out.members) :
                         out.members[j].key = JsonParseObject(Injected).members[i].key
        ELSE adm_out[1] = Injected

\* a native adm with leading whitespace, a nested object and its own
\* ssp_impression_tracking member has been rewritten
C23_Witness ==
    /\ NativeRewritten
    /\ JsonParseObject(Injected).ok
    /\ Injected # TrimStart(Injected)
    /\ MemberValues(JsonParseObject(Injected).members, "ssp_impression_tracking") = <<"null">>
    /\ Len(JsonParseObject(adm_out[1]).members) = 3

(***************************************************************************)
(* RuntimeLogger (logging/runtime_logger.rs): callers send entries over a  *)
(* bounded mpsc channel; one background writer receives them into one      *)
(* buffer per level and writes a buffer to the file of its level when it   *)
(* holds batch_size entries or when the flush interval ticks.  A send that *)
(* finds the channel full waits; tokio serves the waiting sends in the     *)
(* order they arrived.  Time is abstracted: the interval may tick whenever *)
(* the writer is in its select.                                            *)
(***************************************************************************)
MaxLogCallers == 2   \* tasks that call log
MaxLogEntries == 3   \* log calls in one run
LogBufferSize == 1   \* buffer_size, the capacity of the channel
LogBatchSize == 2    \* batch_size

Callers == 1..MaxLogCallers

\* runtime_logger.rs 57: the levels that have a file
LogLevels == {"TRACE", "DEBUG", "INFO", "WARN", "ERROR"}

\* the levels the callers of the model log at; info, in lower case, is not
\* one of the five and has no file
CallerLevels == {"INFO", "ERROR", "info"}

\* runtime_logger.rs 100-110: the entry of one log call; its content is the
\* JSON line, which carries the level and the message (the n-th message of
\* the run is the number n)
log_entry(level, message) ==
    [level |-> level, content |-> [level |-> level, message |-> message]]

\* the channel has room for one more entry (a free permit)
has_capacity(ch) == Len(ch) < LogBufferSize

\* runtime_logger.rs 137: receiver.recv() takes the oldest entry out of the
\* channel
recv(ch) == [entry |-> Head(ch), rest |-> Tail(ch)]

\* the entry put at the front of the buffer of its level
push_entry_front(bufs, entry) ==
    [l \in DOMAIN bufs \cup {entry.level} |->
        IF l = entry.level
        THEN <<entry.content>> \o (IF l \in DOMAIN bufs THEN bufs[l] ELSE <<>>)
        ELSE bufs[l]]

\* an entry of a level without a buffer put in the buffer of INFO
push_entry_default_info(bufs, entry) ==
    IF entry.level \in DOMAIN bufs
    THEN [bufs EXCEPT ![entry.level] = Append(@, entry.content)]
    ELSE [bufs EXCEPT !["INFO"] = Append(@, entry.content)]

\* runtime_logger.rs 139: buffers.entry(level).or_default().push(content)
push_entry(bufs, entry) ==
    [l \in DOMAIN bufs \cup {entry.level} |->
        IF l = entry.level
        THEN (IF l \in DOMAIN bufs THEN bufs[l] ELSE <<>>) \o <<entry.content>>
        ELSE bufs[l]]

\* a buffer left as it is after its flush
clear_buffer_keeps(bufs, l) == bufs

\* runtime_logger.rs 146 and 157: buffer.clear()
clear_buffer(bufs, l) == [bufs EXCEPT ![l] = <<>>]

\* runtime_logger.rs 141-142: the buffers that have reached batch_size
batch_pending(bufs) == {l \in DOMAIN bufs : Len(bufs[l]) >= LogBatchSize}

tick_pending_full_only(bufs) == {l \in DOMAIN bufs : Len(bufs[l]) >= LogBatchSize}
\* runtime_logger.rs 152-153: the buffers that are not empty
tick_pending(bufs) == {l \in DOMAIN bufs : bufs[l] # <<>>}

after_write_no_resume(pending) == [pc |-> "flushing", pending |-> pending, writing |-> ""]
\* the writer after one buffer of a flush is written and cleared: the next
\* buffer of the loop, or back to the select
after_write(pending) ==
    [pc |-> IF pending = {} THEN "select" ELSE "flushing", pending |-> pending,
     writing |-> ""]

\* nothing of the auction pipeline runs
PipelineIdle ==
    /\ demands = [d \in 1..MaxDsp |->
                    [id |-> d, name |-> "mock_dsp", url |-> DspUrl, status |-> TRUE,
                     timeout |-> Some(100)]]
    /\ ssp_placements = <<>>
    /\ dsp_placements = <<>>
    /\ pc = "idle"
    /\ ssp_uuid = ""
    /\ bid_request = [id |-> "", imp |-> <<>>, tmax |-> None]
    /\ tasks = <<>>
    /\ log_manager = <<>>
    /\ runtime_logger = <<>>
    /\ engine_result = NoEngineResult
    /\ http_response = [status |-> 0, body |-> EmptyBidResponse]
    /\ FetchIdle
    /\ ConfigIdle
    /\ AdmIdle

pipeline_vars == <<auction_vars, tasks, fetch_vars, config_vars, adm_vars>>

\* runtime_logger.rs 48-93 and 127-134: RuntimeLogger::new; the channel is
\* empty, every level has a file and an empty buffer, the writer is spawned
RlInit ==
    /\ PipelineIdle
    /\ channel = <<>>
    /\ send_waiters = <<>>
    /\ caller_pc = [c \in Callers |-> "idle"]
    /\ buffers = [l \in LogLevels |-> <<>>]
    /\ log_files = [l \in LogLevels |-> <<>>]
    /\ worker = [pc |-> "select", pending |-> {}, writing |-> ""]
    /\ log_seq = 0
    /\ shutdown_marks = <<>>

\* runtime_logger.rs 99-115: log builds the entry and sends it; the send
\* returns at once when the channel has room and nobody waits before it,
\* otherwise the caller waits in send
RlLog ==
    /\ log_seq < MaxLogEntries
    /\ \E c \in Callers, level \in CallerLevels :
        /\ caller_pc[c] = "idle"
        /\ IF send_waiters = <<>> /\ has_capacity(channel)
           THEN /\ channel' = Append(channel, log_entry(level, log_seq + 1))
                /\ UNCHANGED <<send_waiters, caller_pc>>
           ELSE /\ send_waiters' = Append(send_waiters,
                                          [caller |-> c,
                                           entry |-> log_entry(level, log_seq + 1)])
                /\ caller_pc' = [caller_pc EXCEPT ![c] = "sending"]
                /\ UNCHANGED channel
    /\ log_seq' = log_seq + 1
    /\ UNCHANGED <<buffers, log_files, worker, shutdown_marks, pipeline_vars>>

\* runtime_logger.rs 112-114: the send of the caller that has waited longest
\* gets the room a receive has freed, and its log call returns
RlSendGranted ==
    /\ send_waiters # <<>>
    /\ has_capacity(channel)
    /\ channel' = Append(channel, Head(send_waiters).entry)
    /\ caller_pc' = [caller_pc EXCEPT ![Head(send_waiters).caller] = "idle"]
    /\ send_waiters' = Tail(send_waiters)
    /\ UNCHANGED <<buffers, log_files, worker, log_seq, shutdown_marks, pipeline_vars>>

\* runtime_logger.rs 137-148: the receive branch of the select; the entry
\* goes to the buffer of its level and the buffers that have reached
\* batch_size are flushed
RlRecv ==
    /\ worker.pc = "select"
    /\ channel # <<>>
    /\ channel' = recv(channel).rest
    /\ buffers' = push_entry(buffers, recv(channel).entry)
    /\ worker' = IF batch_pending(buffers') = {}
                 THEN worker
                 ELSE [pc |-> "flushing", pending |-> batch_pending(buffers'),
                       writing |-> ""]
    /\ UNCHANGED <<send_waiters, caller_pc, log_files, log_seq, shutdown_marks,
                   pipeline_vars>>

\* runtime_logger.rs 150-160: the tick branch of the select; every buffer
\* that is not empty is flushed (a tick that finds them all empty changes
\* nothing)
RlTick ==
    /\ worker.pc = "select"
    /\ tick_pending(buffers) # {}
    /\ worker' = [pc |-> "flushing", pending |-> tick_pending(buffers), writing |-> ""]
    /\ UNCHANGED <<channel, send_waiters, caller_pc, buffers, log_files, log_seq,
                   shutdown_marks, pipeline_vars>>

\* runtime_logger.rs 141-146 and 152-157, 168-172: the loop over the buffers
\* (a HashMap, in no fixed order) comes to the next buffer to flush; it
\* starts the blocking write when the level has a file, and otherwise
\* clears the buffer without writing it
RlStartWrite ==
    /\ worker.pc = "flushing"
    /\ \E l \in worker.pending :
        IF l \in DOMAIN log_files
        THEN /\ worker' = [pc |-> "writing", pending |-> worker.pending, writing |-> l]
             /\ UNCHANGED buffers
        ELSE /\ worker' = after_write(worker.pending \ {l})
             /\ buffers' = clear_buffer(buffers, l)
    /\ UNCHANGED <<channel, send_waiters, caller_pc, log_files, log_seq,
                   shutdown_marks, pipeline_vars>>

\* runtime_logger.rs 172-179, then 146 and 157: the blocking write has put
\* the buffer in the file of its level and the buffer is cleared
RlWriteDone ==
    /\ worker.pc = "writing"
    /\ log_files' = [log_files EXCEPT ![worker.writing] = @ \o buffers[worker.writing]]
    /\ buffers' = clear_buffer(buffers, worker.writing)
    /\ worker' = after_write(worker.pending \ {worker.writing})
    /\ UNCHANGED <<channel, send_waiters, caller_pc, log_seq, shutdown_marks,
                   pipeline_vars>>

RlNext ==
    \/ RlLog
    \/ RlSendGranted
    \/ RlRecv
    \/ RlTick
    \/ RlStartWrite
    \/ RlWriteDone

RuntimeLoggerSpec == RlInit /\ [][RlNext]_vars

\* The scheduling of the code: a waiting send is woken when there is room;
\* select! polls its ready branches in random order, so a branch that is
\* ready again and again is taken; the writer task goes on after each await
\* and a blocking write returns.  Nothing obliges a caller to log.
RuntimeLoggerFairSpec ==
    /\ RuntimeLoggerSpec
    /\ WF_vars(RlSendGranted)
    /\ SF_vars(RlRecv)
    /\ SF_vars(RlTick)
    /\ WF_vars(RlStartWrite)
    /\ WF_vars(RlWriteDone)

(***************************************************************************)
(* RuntimeLoggerFairSpec: properties                                       *)
(***************************************************************************)
\* C28: a log call never waits forever: a caller that waits in send for room
\* in the channel, the writer being in a disk write or not, gets the room
\* and its call returns.
C28_LogCallReturns ==
    \A c \in Callers : (caller_pc[c] = "sending") ~> (caller_pc[c] = "idle")

\* the channel is full and a caller waits in send while the writer is in a
\* disk write
C28_Witness ==
    /\ Len(channel) = LogBufferSize
    /\ \E c \in Callers : caller_pc[c] = "sending"
    /\ worker.pc = "writing"

\* the entries a run can log
RlEntries == {log_entry(l, n) : l \in CallerLevels, n \in 1..MaxLogEntries}

HasFile(e) == e.level \in LogLevels

Enqueued(e) == \E i \in 1..Len(channel) : channel[i] = e

Written(e) ==
    /\ e.level \in DOMAIN log_files
    /\ \E i \in 1..Len(log_files[e.level]) : log_files[e.level][i] = e.content

WrittenAt(l, e) == {i \in 1..Len(log_files[l]) : log_files[l][i] = e.content}

\* C37: an entry of one of the five levels is in the files at most once, and
\* in no file but that of its level, whatever the interleaving of log calls,
\* batch flushes and interval flushes.
C37_WrittenOnceInOwnFile ==
    \A e \in RlEntries :
        HasFile(e) =>
            /\ Cardinality(WrittenAt(e.level, e)) <= 1
            /\ \A l \in DOMAIN log_files \ {e.level} : WrittenAt(l, e) = {}

\* a tick has flushed one level, another level has two entries in its
\* file, and the writer is back in its select
C37_Witness ==
    /\ worker.pc = "select"
    /\ \E l \in LogLevels : Len(log_files[l]) >= 2
    /\ \E l \in LogLevels : Len(log_files[l]) = 1

\* the messages of the entries of level l in a sequence of entry contents
MessagesOf(l, contents) ==
    LET OfLevel(c) == c.level = l
        kept == SelectSeq(contents, OfLevel)
    IN [i \in 1..Len(kept) |-> kept[i].message]

\* the contents of the entries in the channel, oldest first
ChannelContents == [i \in 1..Len(channel) |-> channel[i].content]

Increasing(ms) == \A i, j \in 1..Len(ms) : i < j => ms[i] < ms[j]

\* C38: the entries of one level are written to the file of that level in
\* the order in which the channel took them (the n-th log call of the run
\* carries the message n, and the channel takes the calls in their order):
\* what is in the file, then in the buffer, then in the channel goes by
\* increasing message, across batch flushes and interval flushes.
C38_FifoPerLevel ==
    \A l \in LogLevels :
        Increasing(MessagesOf(l, log_files[l] \o buffers[l] \o ChannelContents))

\* a file holds two entries while a later entry of its level is in the
\* buffer or in the channel
C38_Witness ==
    \E l \in LogLevels :
        /\ Len(log_files[l]) >= 2
        /\ MessagesOf(l, buffers[l] \o ChannelContents) # <<>>

\* the entry is in the channel, in a buffer or in a file
Held(e) ==
    \/ Enqueued(e)
    \/ \E l \in DOMAIN buffers : \E i \in 1..Len(buffers[l]) : buffers[l][i] = e.content
    \/ \E l \in DOMAIN log_files : WrittenAt(l, e) # {}

\* C40: an entry of a level that is not one of the five is taken by the
\* channel like any other, is never in a file, and is dropped when its
\* buffer is flushed: no buffer of such a level is left with entries by a
\* flush, and the entry is eventually held nowhere.
C40_UnknownLevelDiscarded ==
    /\ [](\A l \in DOMAIN log_files : \A i \in 1..Len(log_files[l]) :
            log_files[l][i].level \in LogLevels)
    /\ [][\A l \in DOMAIN buffers \ LogLevels :
            (l \in worker.pending /\ l \notin worker'.pending) =>
                buffers'[l] = <<>> /\ log_files' = log_files]_vars
    /\ \A e \in RlEntries : (~HasFile(e) /\ Enqueued(e)) ~> ~Held(e)

\* an entry of the level info has been flushed away, no file has it, while
\* an entry of INFO is in its file
C40_Witness ==
    /\ log_seq >= 2
    /\ "info" \in DOMAIN buffers
    /\ buffers["info"] = <<>>
    /\ channel = <<>>
    /\ send_waiters = <<>>
    /\ Len(log_files["INFO"]) = 1
    /\ \A l \in LogLevels \ {"INFO"} : log_files[l] = <<>>

(***************************************************************************)
(* LogManager (logging/logger.rs): the same channel and background writer  *)
(* with one buffer and one file, and shutdown.                             *)
(***************************************************************************)
\* logger.rs 19: the file of the LogManager
LmFile == "adx_log.json"

\* logger.rs 35: the level and the message joined in one line (the n-th
\* message of the run is the number n)
combined_message(level, message) == [level |-> level, message |-> message]

\* the entries the channel has accepted so far: the log calls made less the
\* ones that still wait in send
Accepted == log_seq - Len(send_waiters)

\* logger.rs 17-30: LogManager::new
LmInit ==
    /\ PipelineIdle
    /\ channel = <<>>
    /\ send_waiters = <<>>
    /\ caller_pc = [c \in Callers |-> "idle"]
    /\ buffers = [f \in {LmFile} |-> <<>>]
    /\ log_files = [f \in {LmFile} |-> <<>>]
    /\ worker = [pc |-> "select", pending |-> {}, writing |-> ""]
    /\ log_seq = 0
    /\ shutdown_marks = <<>>

\* logger.rs 34-39: log joins level and message and sends the line; the
\* sender is open whether shutdown has been called or not
LmLog ==
    /\ log_seq < MaxLogEntries
    /\ \E c \in Callers, level \in CallerLevels :
        /\ caller_pc[c] = "idle"
        /\ IF send_waiters = <<>> /\ has_capacity(channel)
           THEN /\ channel' = Append(channel, combined_message(level, log_seq + 1))
                /\ UNCHANGED <<send_waiters, caller_pc>>
           ELSE /\ send_waiters' = Append(send_waiters,
                                          [caller |-> c,
                                           entry |-> combined_message(level, log_seq + 1)])
                /\ caller_pc' = [caller_pc EXCEPT ![c] = "sending"]
                /\ UNCHANGED channel
    /\ log_seq' = log_seq + 1
    /\ UNCHANGED <<buffers, log_files, worker, shutdown_marks, pipeline_vars>>

\* logger.rs 36: a waiting send gets the room a receive has freed
LmSendGranted ==
    /\ send_waiters # <<>>
    /\ has_capacity(channel)
    /\ channel' = Append(channel, Head(send_waiters).entry)
    /\ caller_pc' = [caller_pc EXCEPT ![Head(send_waiters).caller] = "idle"]
    /\ send_waiters' = Tail(send_waiters)
    /\ UNCHANGED <<buffers, log_files, worker, log_seq, shutdown_marks, pipeline_vars>>

\* logger.rs 54-59: the receive branch; the line is pushed and the buffer
\* is written when it has reached batch_size
LmRecv ==
    /\ worker.pc = "select"
    /\ channel # <<>>
    /\ channel' = recv(channel).rest
    /\ buffers' = [buffers EXCEPT ![LmFile] = Append(@, recv(channel).entry)]
    /\ worker' = IF Len(buffers'[LmFile]) >= LogBatchSize
                 THEN [pc |-> "writing", pending |-> {LmFile}, writing |-> LmFile]
                 ELSE worker
    /\ UNCHANGED <<send_waiters, caller_pc, log_files, log_seq, shutdown_marks,
                   pipeline_vars>>

\* logger.rs 60-64: the tick branch; a buffer that is not empty is written
LmTick ==
    /\ worker.pc = "select"
    /\ buffers[LmFile] # <<>>
    /\ worker' = [pc |-> "writing", pending |-> {LmFile}, writing |-> LmFile]
    /\ UNCHANGED <<channel, send_waiters, caller_pc, buffers, log_files, log_seq,
                   shutdown_marks, pipeline_vars>>

\* logger.rs 70-82: write_logs_to_disk; the blocking write has put the
\* buffer in the file, the buffer is cleared and the loop goes on
LmWriteDone ==
    /\ worker.pc = "writing"
    /\ log_files' = [log_files EXCEPT ![LmFile] = @ \o buffers[LmFile]]
    /\ buffers' = [buffers EXCEPT ![LmFile] = <<>>]
    /\ worker' = [pc |-> "select", pending |-> {}, writing |-> ""]
    /\ UNCHANGED <<channel, send_waiters, caller_pc, log_seq, shutdown_marks,
                   pipeline_vars>>

\* logger.rs 85-89: shutdown is called; drop(&self.sender) drops a
\* reference to the sender, which leaves the sender and the channel as they
\* were, and the sleep of one second starts
LmShutdown ==
    /\ shutdown_marks = <<>>
    /\ shutdown_marks' = <<Accepted>>
    /\ UNCHANGED <<channel, send_waiters, caller_pc, buffers, log_files, worker, log_seq,
                   pipeline_vars>>

\* logger.rs 89-90: the sleep is over and shutdown returns
LmShutdownReturns ==
    /\ Len(shutdown_marks) = 1
    /\ shutdown_marks' = Append(shutdown_marks, Accepted)
    /\ UNCHANGED <<channel, send_waiters, caller_pc, buffers, log_files, worker, log_seq,
                   pipeline_vars>>

LmNext ==
    \/ LmLog
    \/ LmSendGranted
    \/ LmRecv
    \/ LmTick
    \/ LmWriteDone
    \/ LmShutdown
    \/ LmShutdownReturns

LogManagerSpec == LmInit /\ [][LmNext]_vars

(***************************************************************************)
(* LogManagerSpec: properties                                              *)
(***************************************************************************)
\* the messages that are in the file
OnDisk == {log_files[LmFile][i].message : i \in 1..Len(log_files[LmFile])}

\* C30: once shutdown has returned, every entry accepted before shutdown
\* was called is in the file, no entry has been accepted since the return,
\* and the background writer has terminated.
C30_ShutdownDrainsAndStops ==
    Len(shutdown_marks) = 2 =>
        /\ \A n \in 1..shutdown_marks[1] : n \in OnDisk
        /\ Accepted = shutdown_marks[2]
        /\ worker.pc = "terminated"

(***************************************************************************)
(* Spec: the calls of one auction                                          *)
(***************************************************************************)
\* the ids of the enabled demands of the snapshot
EnabledIds == {d \in DOMAIN demands : demands[d].status}

\* the tasks that call demand d; a task makes one HTTP request (dsp_client.rs
\* 49-52)
CallsTo(d) == {i \in 1..Len(tasks) : tasks[i].dsp_id = d}

\* C31: once the gatherer has dispatched, there is exactly one call to each
\* enabled demand and none to a disabled one; a call that has come to its
\* outcome, failure and timeout included, is not made again: no call is
\* added and a finished call keeps its outcome.
C31_OneCallPerEnabledDemand ==
    /\ [](pc \in {"fetching", "engine_returned", "responded"} =>
            \A d \in DOMAIN demands :
                Cardinality(CallsTo(d)) = (IF d \in EnabledIds THEN 1 ELSE 0))
    /\ [][pc # "idle" =>
            /\ Len(tasks') = Len(tasks)
            /\ \A i \in 1..Len(tasks) :
                  /\ tasks'[i].dsp_id = tasks[i].dsp_id
                  /\ tasks[i].state = "done" => tasks'[i] = tasks[i]]_vars

\* the handler has answered an auction of a catalog with a disabled demand
\* in which a call timed out
C31_Witness ==
    /\ pc = "responded"
    /\ EnabledIds # DOMAIN demands
    /\ \E i \in 1..Len(tasks) : Unwrap(tasks[i].result).status = "timeout"

\* the positions in the log of the LogManager of the entries of one kind
LogPositions(kind) == {i \in 1..Len(log_manager) : log_manager[i].entry.adx_log = kind}

\* C32: in the log of one auction the dsp_inquiry_failed entry and every
\* bid_rejected entry come before the adx_inquiry_failed entry, of which
\* there is at most one; and the aggregated line carries the outcome that
\* was formed before it: the winner that is returned, or none.
C32_LogOrder ==
    pc \in {"engine_returned", "responded"} =>
        /\ Cardinality(LogPositions("adx_inquiry_failed")) <= 1
        /\ \A i \in LogPositions("dsp_inquiry_failed") \cup LogPositions("bid_rejected"),
              j \in LogPositions("adx_inquiry_failed") : i < j
        /\ runtime_logger[1].entry.winning_bid =
              (IF IsSome(engine_result.returned)
               THEN Some(Unwrap(engine_result.returned).seatbid[1].bid[1])
               ELSE None)
        /\ runtime_logger[1].entry.adx_inquiry_result =
              (IF IsSome(engine_result.returned) THEN "success" ELSE "failed")

\* an auction that failed with a failed DSP and a rejected bid
C32_Witness ==
    /\ pc = "responded"
    /\ LogPositions("dsp_inquiry_failed") # {}
    /\ LogPositions("bid_rejected") # {}
    /\ LogPositions("adx_inquiry_failed") # {}

\* the outcome tuples of the calls that have finished
Outcomes == {Unwrap(tasks[i].result) : i \in {k \in 1..Len(tasks) : tasks[k].state = "done"}}

\* C34: the top_price of a call classified success is a price of one of the
\* bids of its response and no bid of any of its seatbids has a higher one;
\* it is 0.0 when the response has no bid, and for every other outcome.
C34_TopPriceIsMaximum ==
    \A r \in Outcomes :
        IF r.status = "success" /\ BidsOf(r.bid_response) # <<>>
        THEN /\ \E b \in Range(BidsOf(r.bid_response)) : b.price = r.price
             /\ \A s \in Range(r.bid_response.seatbid) :
                   \A b \in Range(s.bid) : b.price <= r.price
        ELSE r.price = 0

\* one call is a success whose highest bid is in its second seatbid, another
\* call is not a success
C34_Witness ==
    /\ \E r \in Outcomes :
          /\ r.status = "success"
          /\ Len(r.bid_response.seatbid) = 2
          /\ r.bid_response.seatbid[2].bid[1].price > r.bid_response.seatbid[1].bid[1].price
    /\ \E r \in Outcomes : r.status # "success"

\* the bids the DSPs sent in this auction
SentBids == UNION {Range(BidsOf(r.bid_response)) : r \in Outcomes}

\* C39: the response holds one bid, the winner, and that bid is the bid a
\* DSP sent but for its adm: it has the same fields and every field other
\* than adm has the value the DSP sent; a winner sent without adm has none.
\* The handler returns that response as it is.
C39_OnlyAdmIsRewritten ==
    (pc \in {"engine_returned", "responded"} /\ IsSome(engine_result.returned)) =>
        LET response == Unwrap(engine_result.returned)
        IN /\ Len(response.seatbid) = 1
           /\ Len(response.seatbid[1].bid) = 1
           /\ \E sent \in SentBids :
                 /\ sent \in Range(engine_result.checked_bids)
                 /\ \A other \in Range(engine_result.checked_bids) : other.price <= sent.price
                 /\ DOMAIN response.seatbid[1].bid[1] = DOMAIN sent
                 /\ \A f \in DOMAIN sent \ {"adm"} : response.seatbid[1].bid[1][f] = sent[f]
                 /\ sent.adm = None <=> response.seatbid[1].bid[1].adm = None
           /\ pc = "responded" => http_response.body = response

\* the winner was sent without adm while another bid, with an adm, lost
C39_Witness ==
    /\ pc = "responded"
    /\ IsSome(engine_result.returned)
    /\ Unwrap(engine_result.returned).seatbid[1].bid[1].adm = None
    /\ \E sent \in SentBids :
          /\ sent.id # Unwrap(engine_result.returned).seatbid[1].bid[1].id
          /\ sent.adm # None

(***************************************************************************)
(* AuctionSpec: the result and the order in which the calls finish         *)
(***************************************************************************)
\* the outcome of every call, in the order of the demand list
InDemandOrder == [i \in 1..Len(tasks) |-> Unwrap(tasks[i].result)]

\* the dsp_call_details of the aggregated line, one per call
CallDetails == SubSeq(runtime_logger[1].entry.dsp_call_details, 1, Len(tasks))

\* C35: the result of the auction is decided by the demand list and the
\* outcome of each call, not by the order in which the calls finished: the
\* response (the winner and its price) is the one of the auction over the
\* outcomes taken in demand order, and dsp_call_details go by price
\* descending, calls of equal price in the order of the demand list.
C35_ResultIgnoresCompletionOrder ==
    pc = "engine_returned" =>
        /\ engine_result.returned = process_bid_request(bid_request, InDemandOrder).returned
        /\ \A p, q \in 1..Len(CallDetails) :
              p < q =>
                 \/ CallDetails[p].bid_price > CallDetails[q].bid_price
                 \/ /\ CallDetails[p].bid_price = CallDetails[q].bid_price
                    /\ TaskIndex(CallDetails[p].dsp_id) < TaskIndex(CallDetails[q].dsp_id)

\* the auction has a winner; two calls brought the same top price and the
\* call of the later demand finished first
C35_Witness ==
    /\ pc = "engine_returned"
    /\ IsSome(engine_result.returned)
    /\ Len(tasks) >= 2
    /\ Unwrap(tasks[1].result).price = Unwrap(tasks[2].result).price
    /\ Unwrap(tasks[1].result).price > 0
    /\ \E a, b \in 1..Len(completion_order) :
          a < b /\ completion_order[a] = 2 /\ completion_order[b] = 1

(***************************************************************************)
(* config_manager.rs: update_placements called by several threads at once. *)
(* update_pc and update_args hold one entry per caller; the n-th call of   *)
(* caller u passes the two sets of generation u + (n - 1) * MaxUpdaters,   *)
(* so no two calls pass the same sets.                                     *)
(***************************************************************************)
MaxUpdaters == 2  \* threads that call update_placements

Updaters == 1..MaxUpdaters

\* the generation of the next call of a caller, given its last arguments
NextGeneration(u, args) == IF args = <<>> THEN u ELSE GenerationOf(args[1].dsp) + MaxUpdaters

\* config_manager.rs 18-24: ConfigManager::new, no call made yet
ConfigRaceInit ==
    /\ demands = [d \in 1..MaxDsp |->
                    [id |-> d, name |-> "mock_dsp", url |-> DspUrl, status |-> TRUE,
                     timeout |-> Some(100)]]
    /\ ssp_placements = <<>>
    /\ dsp_placements = <<>>
    /\ pc = "idle"
    /\ ssp_uuid = ""
    /\ bid_request = [id |-> "", imp |-> <<>>, tmax |-> None]
    /\ tasks = <<>>
    /\ log_manager = <<>>
    /\ runtime_logger = <<>>
    /\ engine_result = NoEngineResult
    /\ http_response = [status |-> 0, body |-> EmptyBidResponse]
    /\ FetchIdle
    /\ update_pc = [u \in Updaters |-> "idle"]
    /\ update_args = [u \in Updaters |-> <<>>]
    /\ reader_pc = "idle"
    /\ read_ssp = <<>>
    /\ read_dsp = <<>>
    /\ AdmIdle
    /\ LoggerIdle

\* config_manager.rs 46: a caller calls update_placements with the two sets
\* of its next generation
RaceUpdateCall ==
    /\ \E u \in Updaters :
          /\ update_pc[u] = "idle"
          /\ NextGeneration(u, update_args[u]) <= MaxUpdates + MaxUpdaters
          /\ update_args' =
                [update_args EXCEPT
                    ![u] = <<[ssp |-> SspPlacementsOf(NextGeneration(u, update_args[u])),
                              dsp |-> DspPlacementsOf(NextGeneration(u, update_args[u]))]>>]
          /\ update_pc' = [update_pc EXCEPT ![u] = "write_ssp"]
    /\ UNCHANGED <<ssp_placements, dsp_placements, reader_pc, read_ssp, read_dsp,
                   not_config_vars, fetch_vars, adm_vars, logger_vars>>

\* config_manager.rs 47-50: the write lock of ssp_placements is taken, the
\* set is replaced and the lock is released
RaceWriteSsp ==
    /\ \E u \in Updaters :
          /\ update_pc[u] = "write_ssp"
          /\ ssp_placements' = update_args[u][1].ssp
          /\ update_pc' = [update_pc EXCEPT ![u] = "write_dsp"]
    /\ UNCHANGED <<dsp_placements, update_args, reader_pc, read_ssp, read_dsp,
                   not_config_vars, fetch_vars, adm_vars, logger_vars>>

\* config_manager.rs 51-55: the same for dsp_placements, and the call
\* returns
RaceWriteDsp ==
    /\ \E u \in Updaters :
          /\ update_pc[u] = "write_dsp"
          /\ dsp_placements' = update_args[u][1].dsp
          /\ update_pc' = [update_pc EXCEPT ![u] = "idle"]
    /\ UNCHANGED <<ssp_placements, update_args, reader_pc, read_ssp, read_dsp,
                   not_config_vars, fetch_vars, adm_vars, logger_vars>>

ConfigRaceNext ==
    \/ RaceUpdateCall
    \/ RaceWriteSsp
    \/ RaceWriteDsp

ConfigRaceSpec == ConfigRaceInit /\ [][ConfigRaceNext]_vars

(***************************************************************************)
(* ConfigRaceSpec: properties                                              *)
(***************************************************************************)
\* C36: when every call of update_placements has returned, the stored SSP
\* placements and the stored DSP placements are the two sets passed by one
\* and the same call.
C36_StoredPairIsOneCall ==
    (\A u \in Updaters : update_pc[u] = "idle") =>
        GenerationOf(ssp_placements) = GenerationOf(dsp_placements)

(***************************************************************************)
(* DemandManager (model/dsp.rs, bidding/dsp.rs): the catalog of demands, a *)
(* HashMap from id to Demand, under add_demand and remove_demand.          *)
(***************************************************************************)
\* the ids a caller can give a Demand (u64)
DemandIds == 0..MaxDsp

\* the demands a caller can build with Demand::new
DemandValues ==
    [id : DemandIds, name : {"mock_dsp"}, url : {DspUrl}, status : BOOLEAN,
     timeout : {None, Some(100)}]

not_demand_vars == <<ssp_placements, dsp_placements, pc, ssp_uuid, bid_request, tasks,
                     log_manager, runtime_logger, engine_result, http_response,
                     fetch_vars, config_vars, adm_vars, logger_vars>>

\* model/dsp.rs 81-97: generate_demand_manager; the ids are 1..n and at
\* least one demand is enabled
DemandInit ==
    /\ demands \in DemandCatalogs
    /\ ssp_placements = <<>>
    /\ dsp_placements = <<>>
    /\ pc = "idle"
    /\ ssp_uuid = ""
    /\ bid_request = [id |-> "", imp |-> <<>>, tmax |-> None]
    /\ tasks = <<>>
    /\ log_manager = <<>>
    /\ runtime_logger = <<>>
    /\ engine_result = NoEngineResult
    /\ http_response = [status |-> 0, body |-> EmptyBidResponse]
    /\ FetchIdle
    /\ ConfigIdle
    /\ AdmIdle
    /\ LoggerIdle

\* model/dsp.rs 43-45: self.demands.insert(demand.id, demand)
add_demand(dm, demand) ==
    [d \in DOMAIN dm \cup {demand.id} |-> IF d = demand.id THEN demand ELSE dm[d]]

\* model/dsp.rs 47-49: self.demands.remove(&demand_id)
remove_demand(dm, demand_id) == [d \in DOMAIN dm \ {demand_id} |-> dm[d]]

AddDemand ==
    /\ \E demand \in DemandValues : demands' = add_demand(demands, demand)
    /\ UNCHANGED not_demand_vars

RemoveDemand ==
    /\ \E demand_id \in DemandIds : demands' = remove_demand(demands, demand_id)
    /\ UNCHANGED not_demand_vars

DemandNext ==
    \/ AddDemand
    \/ RemoveDemand

DemandSpec == DemandInit /\ [][DemandNext]_vars

(***************************************************************************)
(* DemandSpec: properties                                                  *)
(***************************************************************************)
\* C33: every demand that active_demands returns is enabled, has an id
\* greater than 0, and shares its id with no other returned demand.
C33_ActiveDemandsValid ==
    \A active \in active_demands(demands) :
        \A i \in 1..Len(active) :
            /\ active[i].status
            /\ active[i].id > 0
            /\ \A j \in 1..Len(active) : j # i => active[j].id # active[i].id
====
